---- MODULE Spec2Model ----
(***************************************************************************)
(* Turboread (src/dot_pi/extensions/turboread): the range resolver, the    *)
(* budget packer with the force-accept step of execute, and the per-query  *)
(* mini-agent loop (runMiniAgent).                                          *)
(*                                                                          *)
(* The specifications share the variables below; each one moves only its   *)
(* own group and leaves the others at their initial values:                *)
(*   SpecResolve  readFileSelections on one selection                       *)
(*   SpecPack     execute from the merged candidates to the returned result *)
(*   SpecAgent    runMiniAgent, one agent, with the cancellation signal     *)
(*   SpecAgentFair  SpecAgent with the fairness of the event loop           *)
(*   SpecContext  createLspContext and the requesters of its configuration  *)
(*   SpecMerge    the fileMap merge loop of execute                          *)
(*   SpecRequest  execute from the settled agents to its return             *)
(*   SpecNormalize  normalizeSelection on one raw selection                 *)
(*   SpecTurn     the tool turns of runMiniAgent, fan-out and join           *)
(*   SpecPatterns the search patterns of an agent's RelevanceScanner run    *)
(*                                                                          *)
(* The tmux-agents broker (src/dot_pi/skills/tmux-agents/scripts/broker.ts) *)
(*   SpecBroker   the broker and the messages of one agent                  *)
(***************************************************************************)
EXTENDS Integers, Sequences, FiniteSets, TLC

VARIABLES
    \* ---- SpecResolve: one call of readFileSelections on one selection
    rsTotalLines,   \* lines.length of the file read
    rsRanges,       \* sel.ranges, as normalizeSelection leaves them
    rsSymbols,      \* sel.symbols.length
    rsSymRanges,    \* what lspContext.resolveSymbolRanges returns
    rsNames,        \* sel.symbols, when the lookup ran on the file's hierarchy
    rsPhase,        \* "input" | "resolved"
    rsEntries,      \* the entries readFileSelections returned (0 or 1)
    \* ---- SpecPack: execute, from fileMap to the returned details
    queryCount,     \* queries.length
    lspLoad,        \* outcome of loadConfig: "ok" | "fail"
    candidates,     \* candidateSelections with their queryInfoByFile entry
    xPhase,         \* "merge" | "returned"
    allEntries,     \* readFileSelections(candidateSelections)
    packed,         \* what packSelectionChunks returned
    included,       \* includedEntries
    omittedEntries, \* omittedEntries
    details,        \* the details object of the result
    \* ---- SpecAgent: runMiniAgent
    pc,             \* position of the agent in runMiniAgent
    iterations,
    transientRetryCount,
    elapsed,        \* Date.now() - transientRetryStart
    emptyResponseRetries,
    finishRetryCount,
    finishElapsed,  \* Date.now() - finishRetryStart
    aborted,        \* signal.aborted
    pushed,         \* the messages the last step pushed onto messages
    emitted,        \* the statuses handed to onUpdate so far (see emit)
    result,         \* the MiniAgentResult returned
    backoffMs,      \* delay of the sleep in progress
    pending,        \* tool calls of the current turn under execution
    hist,           \* observation record of the run (not read by the agent)
    lspUnavailable,         \* the guardrail flag of runMiniAgent
    lspUnavailableNotified, \* the model was told about it
    executed,       \* the tool calls of the turn under execution, with results
    \* ---- SpecContext: the shared LSP context of one invocation
    configPromise,  \* "none" | "pending" | "fulfilled" | "rejected"
    config,         \* "null" | "loaded"
    loadError,      \* "null" | "error"
    loadsStarted,   \* calls of loadConfig so far
    requests,       \* per requester: "idle" | "awaiting" | "ok" | "fail"
    \* ---- SpecMerge: the fileMap loop of execute
    contributions,  \* the (query, selection) pairs merged so far, in order
    fileMap,        \* fileMap, in insertion order
    mgQueries,      \* queries[i].query of the invocation, by index
    mgPhase,        \* "merging" | "merged"
    mergedSelections, \* candidateSelections with queryInfoByFile
    \* ---- SpecRequest: execute, from the agents' results to its return
    queriesLength,  \* queries.length
    contextLoad,    \* outcome of the context's loadConfig: "ok" | "fail"
    fault,          \* stage after the merge at which an exception is raised
    results,        \* the settled runMiniAgent promises, in query order
    rqPhase,        \* "agents" | "returned" | "propagated"
    response,       \* what execute returned
    \* ---- SpecNormalize: normalizeSelection on one raw selection
    nzRaw,          \* the raw selection of the finish payload
    nzPhase,        \* "raw" | "normalized"
    nzOut,          \* what normalizeSelection returned
    \* ---- SpecTurn: the tool turns of one agent
    tnPhase,        \* "call" | "tools" | "error"
    tnTurn,         \* tool turns so far
    tnCalls,        \* toolCalls of the current turn
    tnStarted,      \* indices of the calls whose executeTool was invoked
    tnSettled,      \* indices of the fulfilled calls, in the order they settled
    tnMessages,     \* messages (assistant and toolResult entries)
    tnLog,          \* allToolCalls
    \* ---- SpecPatterns: the patterns getSmartTree searches with
    ptQuery,        \* the query text
    ptHints,        \* the hints text ("" when there are none)
    ptPhase,        \* "input" | "extracted"
    ptPatterns,     \* what extractPatterns returned
    \* ---- SpecBroker: broker.ts and the senders of one agent's messages
    brTurn,         \* agent.turn
    brStatus,       \* agent.status
    brCancelled,    \* agent.cancelled
    brResult,       \* agent.result (<<>> when undefined)
    brWaiters,      \* waiters.get(agent), the queued sockets in order
    brAgentWorking, \* the agent is inside a turn (it owes a done/error)
    brCancelledTurns, \* the turns a cancel was handled in
    brAnswers,      \* per wait socket, what was written to it
    brSockets,      \* wait connections opened so far
    brClosed,       \* wait connections closed by their client while queued
    brCancels,      \* cancel messages handled so far
    brLast          \* the message the broker handled last

rsVars == <<rsTotalLines, rsRanges, rsSymbols, rsSymRanges, rsNames, rsPhase,
           rsEntries>>
xVars == <<queryCount, lspLoad, candidates, xPhase, allEntries, packed,
           included, omittedEntries, details>>
agVars == <<pc, iterations, transientRetryCount, elapsed, emptyResponseRetries,
            finishRetryCount, finishElapsed, aborted, pushed,
            emitted, result, backoffMs, pending, hist,
            lspUnavailable, lspUnavailableNotified, executed>>
lspVars == <<lspUnavailable, lspUnavailableNotified, executed>>
cxVars == <<configPromise, config, loadError, loadsStarted, requests>>
mgVars == <<contributions, fileMap, mgPhase, mergedSelections, mgQueries>>
rqVars == <<queriesLength, contextLoad, fault, results, rqPhase, response>>
nzVars == <<nzRaw, nzPhase, nzOut>>
tnVars == <<tnPhase, tnTurn, tnCalls, tnStarted, tnSettled, tnMessages, tnLog>>
ptVars == <<ptQuery, ptHints, ptPhase, ptPatterns>>
brVars == <<brTurn, brStatus, brCancelled, brResult, brWaiters,
            brAgentWorking, brCancelledTurns, brAnswers, brSockets, brClosed,
            brCancels, brLast>>
vars == <<rsVars, xVars, agVars, cxVars, mgVars, rqVars, nzVars, tnVars, ptVars, brVars>>

\* What a step of one part leaves alone.
exceptResolve == <<xVars, agVars, cxVars, mgVars, rqVars, nzVars, tnVars, ptVars, brVars>>
exceptPack == <<rsVars, agVars, cxVars, mgVars, rqVars, nzVars, tnVars, ptVars, brVars>>
exceptAgent == <<rsVars, xVars, cxVars, mgVars, rqVars, nzVars, tnVars, ptVars, brVars>>
exceptContext == <<rsVars, xVars, agVars, mgVars, rqVars, nzVars, tnVars, ptVars, brVars>>
exceptMerge == <<rsVars, xVars, agVars, cxVars, rqVars, nzVars, tnVars, ptVars, brVars>>
exceptRequest == <<rsVars, xVars, agVars, cxVars, mgVars, nzVars, tnVars, ptVars, brVars>>
exceptTurn == <<rsVars, xVars, agVars, cxVars, mgVars, rqVars, nzVars, ptVars, brVars>>
exceptNormalize == <<rsVars, xVars, agVars, cxVars, mgVars, rqVars, tnVars, ptVars, brVars>>
exceptPatterns == <<rsVars, xVars, agVars, cxVars, mgVars, rqVars, nzVars, tnVars,
                    brVars>>
exceptBroker == <<rsVars, xVars, agVars, cxVars, mgVars, rqVars, nzVars, tnVars,
                  ptVars>>

Min(a, b) == IF a <= b THEN a ELSE b
Max(a, b) == IF a >= b THEN a ELSE b

\* ---------------------------------------------------------------------------
\* Program constants (index.ts:64-85)
\* ---------------------------------------------------------------------------
MAX_ITERATIONS == 15
OUTPUT_SOFT_TOKEN_BUDGET == 45000
OUTPUT_HARD_TOKEN_BUDGET == 60000
OUTPUT_BASE_BUDGET == 18000
OUTPUT_PER_QUERY_BUDGET == 9000
DEFAULT_FALLBACK_LINES == 60
MAX_LINES_PER_RANGE == 160
MAX_LINES_PER_FILE == 260
RANGE_MERGE_GAP == 2
\* maxItems of the queries parameter
MAX_QUERIES == 5

\* ---------------------------------------------------------------------------
\* Range resolution (readFileSelections)
\* ---------------------------------------------------------------------------
Range(s, e) == [start |-> s, end |-> e]

RangeLen(r) == r.end - r.start + 1

RECURSIVE SumLen(_)
SumLen(rs) == IF rs = <<>> THEN 0 ELSE RangeLen(Head(rs)) + SumLen(Tail(rs))

InSeq(x, s) == \E i \in 1..Len(s) : s[i] = x

\* dedupeRanges: first occurrence of every start:end key, in order.
RECURSIVE dedupeFrom(_, _)
dedupeFrom(out, rest) ==
    IF rest = <<>> THEN out
    ELSE IF InSeq(Head(rest), out) THEN dedupeFrom(out, Tail(rest))
    ELSE dedupeFrom(Append(out, Head(rest)), Tail(rest))

keepAllRanges(ranges) == ranges

dedupeRanges(ranges) == dedupeFrom(<<>>, ranges)

\* .map(r => ({start: max(1, min(totalLines, r.start)), end: ...}))
ClampToFileStartOnly(r, totalLines) ==
    Range(Max(1, Min(totalLines, r.start)), Max(1, r.end))

ClampToFile(r, totalLines) ==
    Range(Max(1, Min(totalLines, r.start)), Max(1, Min(totalLines, r.end)))

RECURSIVE MapClamp(_, _)
MapClamp(rs, totalLines) ==
    IF rs = <<>> THEN <<>>
    ELSE <<ClampToFile(Head(rs), totalLines)>> \o MapClamp(Tail(rs), totalLines)

\* .filter(r => r.end >= r.start)
RECURSIVE FilterValid(_)
FilterValid(rs) ==
    IF rs = <<>> THEN <<>>
    ELSE IF Head(rs).end >= Head(rs).start
         THEN <<Head(rs)>> \o FilterValid(Tail(rs))
         ELSE FilterValid(Tail(rs))

\* .sort((a, b) => a.start - b.start): stable, so a range goes after every
\* range already placed whose start is <= its own.
RECURSIVE InsertByStart(_, _)
InsertByStart(r, sorted) ==
    IF sorted = <<>> THEN <<r>>
    ELSE IF Head(sorted).start <= r.start
         THEN <<Head(sorted)>> \o InsertByStart(r, Tail(sorted))
         ELSE <<r>> \o sorted

RECURSIVE SortFrom(_, _)
SortFrom(sorted, rest) ==
    IF rest = <<>> THEN sorted
    ELSE SortFrom(InsertByStart(Head(rest), sorted), Tail(rest))

SortByStart(rs) == SortFrom(<<>>, rs)

\* Merge overlapping / near-touching ranges (index.ts:764-773).
RECURSIVE MergeFrom(_, _)
MergeFrom(merged, rest) ==
    IF rest = <<>> THEN merged
    ELSE LET r == Head(rest)
             n == Len(merged)
         IN IF n > 0 /\ r.start <= merged[n].end + RANGE_MERGE_GAP
            THEN MergeFrom([merged EXCEPT ![n].end = Max(merged[n].end, r.end)],
                           Tail(rest))
            ELSE MergeFrom(Append(merged, r), Tail(rest))

\* A merge that leaves the sorted ranges as they are.
leaveUnmerged(rs) == rs

MergeRanges(rs) == MergeFrom(<<>>, rs)

\* A clamp that keeps every range whole.
keepWhole(r) == r

\* Clamp very large ranges (index.ts:775-780).
ClampLen(r) ==
    IF RangeLen(r) <= MAX_LINES_PER_RANGE THEN r
    ELSE Range(r.start, r.start + MAX_LINES_PER_RANGE - 1)

RECURSIVE MapClampLen(_)
MapClampLen(rs) ==
    IF rs = <<>> THEN <<>> ELSE <<ClampLen(Head(rs))>> \o MapClampLen(Tail(rs))

\* Enforce per-file surfaced line cap (index.ts:782-791).
RECURSIVE LimitFrom(_, _, _)
LimitFrom(limited, remaining, rest) ==
    IF rest = <<>> \/ remaining <= 0 THEN limited
    ELSE LET r == Head(rest)
             take == Min(RangeLen(r), remaining)
         IN LimitFrom(Append(limited, Range(r.start, r.start + take - 1)),
                      remaining - take, Tail(rest))

LimitRanges(rs) == LimitFrom(<<>>, MAX_LINES_PER_FILE, rs)

\* estimateTokens (format.ts:116-173) on the text of n lines of a file whose
\* every line costs lineCost half-tokens (1 = the newline share of an empty
\* line): 0 for the empty text, else the sum rounded half up.
estimateTokens(n, lineCost) ==
    IF n = 1 /\ lineCost = 1 THEN 0 ELSE (n * lineCost + 1) \div 2

\* The ranges readFileSelections surfaces for a readable file
\* (index.ts:737-791): explicit ranges united with the symbol ranges, the
\* fallback prefix when there are none, then clamp, sort, merge, cap.
fallbackRange(totalLines) == Range(1, Min(DEFAULT_FALLBACK_LINES, totalLines))

collectRanges(selRanges, nSymbols, symbolRanges) ==
    IF nSymbols > 0
    THEN dedupeRanges(dedupeRanges(selRanges) \o symbolRanges)
    ELSE dedupeRanges(selRanges)

normalizeAndSort(ranges, totalLines) ==
    SortByStart(FilterValid(MapClamp(ranges, totalLines)))

resolveLimited(selRanges, nSymbols, symbolRanges, totalLines) ==
    LET collected == collectRanges(selRanges, nSymbols, symbolRanges)
        ranges == IF collected = <<>> THEN <<fallbackRange(totalLines)>>
                  ELSE collected
    IN LimitRanges(MapClampLen(MergeRanges(normalizeAndSort(ranges, totalLines))))

\* One iteration of the for loop of readFileSelections for a file that exists
\* and whose symbol lookup did not throw: the entries it pushes (none when
\* limited is empty).
readOne(sel, info, symbolRanges, totalLines, lineCost) ==
    LET collected == collectRanges(sel.ranges, Len(sel.symbols), symbolRanges)
        limited == resolveLimited(sel.ranges, Len(sel.symbols), symbolRanges,
                                  totalLines)
        selectedLines == SumLen(limited)
    IN IF limited = <<>> THEN <<>>
       ELSE << [file |-> sel.file,
                totalLines |-> totalLines,
                selectedLines |-> selectedLines,
                estimatedTokens |-> estimateTokens(selectedLines, lineCost),
                ranges |-> limited,
                symbols |-> sel.symbols,
                confidence |-> sel.confidence,
                queryCount |-> info.queryCount,
                shared |-> info.shared,
                fallbackUsed |-> (collected = <<>>),
                fullFile |-> (Len(limited) = 1 /\ limited[1].start <= 1
                              /\ limited[1].end >= totalLines)] >>

\* ---------------------------------------------------------------------------
\* Symbol lookup (lsp-context.ts:332-361)
\* ---------------------------------------------------------------------------
\* String.prototype.toLowerCase on the symbol names of the model.
toLowerCase(name) ==
    CASE name = "Parse" -> "parse"
      [] name = "AuthService" -> "authservice"
      [] name = "HIGH" -> "high"
      [] name = "Foo" -> "foo"
      [] name = "LSP" -> "lsp"
      [] name = "No" -> "no"
      [] OTHER -> name

\* A document symbol as the language server reports it: zero-based lines.
DocumentSymbol(name, startLine, endLine, children) ==
    [name |-> name, startLine |-> startLine, endLine |-> endLine,
     children |-> children]

nameSetHas(names, name) ==
    \E i \in 1..Len(names) : toLowerCase(names[i]) = toLowerCase(name)

\* A lookup that only looks at the top level of the hierarchy.
RECURSIVE findSymbolsTopLevel(_, _)
findSymbolsTopLevel(items, names) ==
    IF items = <<>> THEN <<>>
    ELSE (IF nameSetHas(names, Head(items).name)
          THEN <<Range(Head(items).startLine + 1, Head(items).endLine + 1)>>
          ELSE <<>>)
         \o findSymbolsTopLevel(Tail(items), names)

\* findSymbols of resolveSymbolRangesWithConfig: the one-based range of every
\* document symbol, at any depth, whose lower-cased name is among the
\* lower-cased names asked; a symbol comes before its children.
RECURSIVE findSymbols(_, _)
findSymbols(items, names) ==
    IF items = <<>> THEN <<>>
    ELSE (IF nameSetHas(names, Head(items).name)
          THEN <<Range(Head(items).startLine + 1, Head(items).endLine + 1)>>
          ELSE <<>>)
         \o findSymbols(Head(items).children, names)
         \o findSymbols(Tail(items), names)

\* ---------------------------------------------------------------------------
\* SpecResolve: readFileSelections on one selection of one readable file
\* ---------------------------------------------------------------------------
\* Bound on the number of ranges (explicit and symbol) of the selection.
MaxRanges == 3

\* File lengths tried: a one-line file, a short file, a file a little longer
\* than one range may be, a long file.
TotalLinesChoices == {1, 6, 200, 500}

\* Explicit ranges as normalizeRanges leaves them (integers, 1 <= start <= end),
\* some of them past the end of the shorter files.
ExplicitRangeChoices ==
    {Range(1, 4), Range(7, 7), Range(1, 200), Range(204, 450),
     Range(453, 500), Range(600, 700)}

\* Ranges the symbol lookup returns (line + 1 of the server's answer): the
\* server is not trusted to return end >= start or lines inside the file.
SymbolRangeChoices ==
    {Range(2, 3), Range(5, 4), Range(170, 171), Range(440, 460), Range(501, 650)}

rsInfo == [queryCount |-> 1, shared |-> FALSE]

rsSel == [file |-> "f", ranges |-> rsRanges,
          symbols |-> IF rsNames # <<>> THEN rsNames
                      ELSE [i \in 1..rsSymbols |-> "s"],
          confidence |-> ""]

\* The symbol hierarchy the language server reports for the file, by the
\* file's length (zero-based lines): a class of 241 lines with methods and a
\* nested function, and a free function.
DocumentSymbols(totalLines) ==
    IF totalLines = 500
    THEN << DocumentSymbol("AuthService", 49, 289,
               << DocumentSymbol("login", 59, 79,
                     << DocumentSymbol("validate", 69, 74, <<>>) >>),
                  DocumentSymbol("Parse", 99, 119, <<>>) >>),
            DocumentSymbol("helper", 299, 309, <<>>) >>
    ELSE IF totalLines = 6
    THEN << DocumentSymbol("main", 1, 4,
               << DocumentSymbol("validate", 2, 3, <<>>) >>) >>
    ELSE <<>>

\* The symbol names a selection asks for.
SymbolNameChoices ==
    { <<"validate">>, <<"parse">>, <<"authservice">>, <<"helper">>, <<"main">>,
      <<"login", "helper">>, <<"absent">>, <<"Parse", "validate">> }

ResolveInit ==
    /\ rsTotalLines \in TotalLinesChoices
    /\ rsSymbols \in 0..2
    /\ rsRanges = <<>>
    /\ rsSymRanges = <<>>
    /\ rsNames = <<>>
    /\ rsPhase = "input"
    /\ rsEntries = <<>>

\* The agent's finish call names one more explicit range for the file.
rsAddRange ==
    /\ rsPhase = "input"
    /\ Len(rsRanges) + Len(rsSymRanges) < MaxRanges
    /\ \E r \in ExplicitRangeChoices : rsRanges' = Append(rsRanges, r)
    /\ UNCHANGED <<rsTotalLines, rsSymbols, rsSymRanges, rsNames, rsPhase,
                   rsEntries>>
    /\ UNCHANGED exceptResolve

\* The symbol lookup finds one more matching symbol.
rsAddSymbolRange ==
    /\ rsPhase = "input"
    /\ rsSymbols > 0
    /\ rsNames = <<>>
    /\ Len(rsRanges) + Len(rsSymRanges) < MaxRanges
    /\ \E r \in SymbolRangeChoices : rsSymRanges' = Append(rsSymRanges, r)
    /\ UNCHANGED <<rsTotalLines, rsSymbols, rsRanges, rsNames, rsPhase, rsEntries>>
    /\ UNCHANGED exceptResolve

\* The symbol lookup runs on the file's hierarchy with the selection's names
\* (lsp-context.ts:341-357).
rsLookup ==
    /\ rsPhase = "input"
    /\ rsSymbols > 0
    /\ rsNames = <<>>
    /\ rsSymRanges = <<>>
    /\ \E names \in SymbolNameChoices :
         /\ Len(names) = rsSymbols
         /\ Len(rsRanges) + Len(findSymbols(DocumentSymbols(rsTotalLines), names))
               <= MaxRanges
         /\ rsNames' = names
         /\ rsSymRanges' = findSymbols(DocumentSymbols(rsTotalLines), names)
    /\ UNCHANGED <<rsTotalLines, rsSymbols, rsRanges, rsPhase, rsEntries>>
    /\ UNCHANGED exceptResolve

\* readFileSelections runs on the selection.
rsResolve ==
    /\ rsPhase = "input"
    /\ rsEntries' = readOne(rsSel, rsInfo, rsSymRanges, rsTotalLines, 2)
    /\ rsPhase' = "resolved"
    /\ UNCHANGED <<rsTotalLines, rsSymbols, rsRanges, rsSymRanges, rsNames>>
    /\ UNCHANGED exceptResolve

ResolveNext == rsAddRange \/ rsAddSymbolRange \/ rsLookup \/ rsResolve

\* ---------------------------------------------------------------------------
\* Budget packer (getQueryScaledBudgets, scoreSelectionMeta,
\* canExceedSoftBudget, packSelectionChunks) and execute
\* ---------------------------------------------------------------------------
getQueryScaledBudgets(n) ==
    LET scaledHard == Min(OUTPUT_HARD_TOKEN_BUDGET,
                          OUTPUT_BASE_BUDGET + OUTPUT_PER_QUERY_BUDGET * Max(0, n - 1))
    IN [soft |-> Min(OUTPUT_SOFT_TOKEN_BUDGET, scaledHard), hard |-> scaledHard]

\* scoreSelectionMeta, in tenths (the source adds 2.2, 1.0, -0.4, ...).
scoreSelectionMeta(meta) ==
    LET selected == meta.selectedLines
    IN 10
       + (CASE meta.confidence = "high" -> 22
            [] meta.confidence = "medium" -> 10
            [] meta.confidence = "low" -> -4
            [] OTHER -> 0)
       + (IF meta.queryCount > 1 THEN 13 + 4 * (meta.queryCount - 1) ELSE 0)
       + (IF Len(meta.symbols) > 0 THEN 14 ELSE 0)
       + (IF Len(meta.ranges) > 0 THEN 6 ELSE 0)
       + (IF selected > 0 /\ selected <= 120 THEN 8
          ELSE IF selected <= 240 THEN 4
          ELSE IF selected > 420 THEN -5 ELSE 0)
       + (IF meta.fallbackUsed THEN -9 ELSE 0)
       + (IF meta.fullFile /\ selected > 220 THEN -12 ELSE 0)

canExceedSoftBudget(meta) ==
    \/ meta.confidence = "high"
    \/ (meta.queryCount > 1 /\ Len(meta.symbols) > 0)
    \/ (Len(meta.symbols) >= 2 /\ ~meta.fallbackUsed)

\* .map(entry => ({entry, value, tokens, density})); density is value/tokens
\* and is compared by cross-multiplication (tokens >= 1).
rankItem(entry) ==
    [entry |-> entry,
     value |-> scoreSelectionMeta(entry),
     tokens |-> Max(1, IF entry.estimatedTokens = 0 THEN 1 ELSE entry.estimatedTokens)]

\* A comparator that ranks by token cost alone.
cheaperBefore(a, b) == a.tokens < b.tokens

\* The comparator of the sort: a goes before b.
rankedBefore(a, b) ==
    LET da == a.value * b.tokens
        db == b.value * a.tokens
    IN IF da # db THEN da > db
       ELSE IF a.value # b.value THEN a.value > b.value
       ELSE a.tokens < b.tokens

RECURSIVE InsertRanked(_, _)
InsertRanked(x, sorted) ==
    IF sorted = <<>> THEN <<x>>
    ELSE IF rankedBefore(x, Head(sorted)) THEN <<x>> \o sorted
         ELSE <<Head(sorted)>> \o InsertRanked(x, Tail(sorted))

RECURSIVE rankFrom(_, _)
rankFrom(sorted, rest) ==
    IF rest = <<>> THEN sorted
    ELSE rankFrom(InsertRanked(rankItem(Head(rest)), sorted), Tail(rest))

rankEntries(entries) == rankFrom(<<>>, entries)

\* The second test of the walk (index.ts:926).
acceptsBeyondSoftIgnoringHard(next, budgets, meta) == canExceedSoftBudget(meta)

acceptsBeyondSoftAnyChunk(next, budgets, meta) == next <= budgets.hard

acceptsBeyondSoft(next, budgets, meta) ==
    next <= budgets.hard /\ canExceedSoftBudget(meta)

RECURSIVE packWalk(_, _, _)
packWalk(acc, items, budgets) ==
    IF items = <<>> THEN acc
    ELSE LET item == Head(items)
             next == acc.usedTokens + item.tokens
         IN IF next <= budgets.soft \/ acceptsBeyondSoft(next, budgets, item.entry)
            THEN packWalk([acc EXCEPT !.included = Append(@, item.entry),
                                      !.usedTokens = next,
                                      !.usedLoc = @ + item.entry.selectedLines],
                          Tail(items), budgets)
            ELSE packWalk([acc EXCEPT !.omitted = Append(@, item.entry)],
                          Tail(items), budgets)

packSelectionChunks(entries, budgets) ==
    packWalk([included |-> <<>>, omitted |-> <<>>, usedTokens |-> 0, usedLoc |-> 0],
             rankEntries(entries), budgets)

\* Always surface at least one concrete chunk (index.ts:1111-1114).
forceAcceptNever(p) == p.included

forceAccept(p) ==
    IF p.included = <<>> /\ p.omitted # <<>> THEN <<p.omitted[1]>> ELSE p.included

RECURSIVE SumTokens(_)
SumTokens(es) ==
    IF es = <<>> THEN 0 ELSE Head(es).estimatedTokens + SumTokens(Tail(es))

RECURSIVE FilterNotIn(_, _)
FilterNotIn(es, inc) ==
    IF es = <<>> THEN <<>>
    ELSE IF InSeq(Head(es), inc) THEN FilterNotIn(Tail(es), inc)
         ELSE <<Head(es)>> \o FilterNotIn(Tail(es), inc)

\* The repository execute runs in: per file, whether it exists, its number
\* of lines, the cost of one line in half-tokens, and the document symbols
\* the language server reports for it.
Repo ==
    [f \in {"missing.ts", "auth.ts", "bundle.js"} |->
        CASE f = "missing.ts" ->
                [exists |-> FALSE, totalLines |-> 0, lineCost |-> 0, symbols |-> <<>>]
          [] f = "auth.ts" ->
                [exists |-> TRUE, totalLines |-> 300, lineCost |-> 230,
                 symbols |-> << DocumentSymbol("login", 9, 39, <<>>),
                                DocumentSymbol("Parse", 99, 119, <<>>) >>]
          [] OTHER ->
                [exists |-> TRUE, totalLines |-> 300, lineCost |-> 560,
                 symbols |-> <<>>]]

resolveSymbolRanges(file, names) == findSymbols(Repo[file].symbols, names)

\* readFileSelections (index.ts:720-856): a file that does not exist is
\* skipped; a selection with symbols whose lookup throws (the configuration
\* load failed) is dropped by the catch; otherwise readOne.
RECURSIVE readFileSelections(_, _)
readFileSelections(sels, load) ==
    IF sels = <<>> THEN <<>>
    ELSE LET c == Head(sels)
             f == Repo[c.sel.file]
         IN (IF ~f.exists THEN <<>>
             ELSE IF Len(c.sel.symbols) > 0 /\ load = "fail" THEN <<>>
             ELSE readOne(c.sel, c.info,
                          resolveSymbolRanges(c.sel.file, c.sel.symbols),
                          f.totalLines, f.lineCost))
            \o readFileSelections(Tail(sels), load)

\* ---------------------------------------------------------------------------
\* SpecPack: execute from the merged fileMap to the returned result
\* ---------------------------------------------------------------------------
\* Bound on the number of files in fileMap.
MaxFiles == 2

\* What a merged selection asks of its file: nothing (fallback), an explicit
\* range, symbols only, or both.
SelectionShapes ==
    { [ranges |-> <<>>, symbols |-> <<>>],
      [ranges |-> <<Range(1, 200)>>, symbols |-> <<>>],
      [ranges |-> <<>>, symbols |-> <<"login", "parse">>],
      [ranges |-> <<Range(1, 10)>>, symbols |-> <<"login">>] }

ConfidenceChoices == {"low", "high"}

PackInit ==
    /\ queryCount \in 1..MAX_QUERIES
    /\ lspLoad \in {"ok", "fail"}
    /\ candidates = <<>>
    /\ xPhase = "merge"
    /\ allEntries = <<>>
    /\ packed = <<>>
    /\ included = <<>>
    /\ omittedEntries = <<>>
    /\ details = <<>>

\* The merge loop of execute adds one more file to fileMap (index.ts:1041-1069)
\* with the query attribution of lines 1090-1095.
xAddCandidate ==
    /\ xPhase = "merge"
    /\ Len(candidates) < MaxFiles
    /\ \E f \in DOMAIN Repo, shape \in SelectionShapes, conf \in ConfidenceChoices,
          qc \in {1, queryCount} :
        /\ \A i \in 1..Len(candidates) : candidates[i].sel.file # f
        /\ candidates' = Append(candidates,
              [sel |-> [file |-> f, ranges |-> shape.ranges,
                        symbols |-> shape.symbols, confidence |-> conf],
               info |-> [queryCount |-> qc, shared |-> (qc > 1)]])
    /\ UNCHANGED <<queryCount, lspLoad, xPhase, allEntries, packed, included,
                   omittedEntries, details>>
    /\ UNCHANGED exceptPack

\* The rest of execute (index.ts:1080-1170): read, pack, force-accept, return.
xExecute ==
    /\ xPhase = "merge"
    /\ xPhase' = "returned"
    /\ allEntries' = readFileSelections(candidates, lspLoad)
    /\ IF candidates = <<>> \/ allEntries' = <<>>
       THEN /\ packed' = <<>>
            /\ included' = <<>>
            /\ omittedEntries' = <<>>
            /\ details' = [status |-> "error",
                           candidateFileCount |-> Len(candidates)]
       ELSE /\ packed' = packSelectionChunks(allEntries',
                                             getQueryScaledBudgets(queryCount))
            /\ included' = forceAccept(packed')
            /\ omittedEntries' = FilterNotIn(packed'.omitted, included')
            /\ details' = [status |-> "done",
                           fileCount |-> Len(included'),
                           candidateFileCount |-> Len(candidates),
                           omittedFileCount |->
                               Max(0, Len(candidates) - Len(included')),
                           tokenCount |-> SumTokens(included'),
                           tokenBudgetSoft |-> getQueryScaledBudgets(queryCount).soft,
                           tokenBudgetHard |-> getQueryScaledBudgets(queryCount).hard]
    /\ UNCHANGED <<queryCount, lspLoad, candidates>>
    /\ UNCHANGED exceptPack

PackNext == xAddCandidate \/ xExecute

\* ---------------------------------------------------------------------------
\* SpecAgent: runMiniAgent (index.ts:334-707), one agent
\* ---------------------------------------------------------------------------
RETRY_WALL_TIME_MS == 30000
INITIAL_BACKOFF_MS == 500
MAX_EMPTY_RETRIES == 2
MAX_FINISH_NUDGES == 2

\* Bound on the non-finish tool calls of one model turn.
MaxToolCalls == 2

\* Wall time one completion call may take, in ms: none, most of the retry
\* window, or the whole of it.
CallDurations == {0, 29000, 30000}

RECURSIVE Pow2(_)
Pow2(n) == IF n <= 0 THEN 1 ELSE 2 * Pow2(n - 1)

\* Math.min(INITIAL_BACKOFF_MS * 2^(count - 1), RETRY_WALL_TIME_MS - elapsed)
backoffDelay(count, el) ==
    Min(INITIAL_BACKOFF_MS * Pow2(count - 1), RETRY_WALL_TIME_MS - el)

\* A retry helper that keeps no window: constant delay, never gives up.
getTransientBackoffNoWindow(count, el) ==
    [retry |-> TRUE, count |-> count, elapsed |-> 0, delay |-> INITIAL_BACKOFF_MS]

\* A retry helper whose window ends a full second late.
getTransientBackoffLateCutoff(count, el) ==
    LET e == IF count = 0 THEN 0 ELSE el
    IN IF e >= RETRY_WALL_TIME_MS + 1000
       THEN [retry |-> FALSE, count |-> count, elapsed |-> e, delay |-> -1]
       ELSE [retry |-> TRUE, count |-> count + 1, elapsed |-> e,
             delay |-> Max(0, backoffDelay(count + 1, e))]

\* getTransientBackoff (index.ts:470-478). count is transientRetryCount and el
\* is Date.now() - transientRetryStart at the call; the first failure of a
\* streak (count = 0) sets transientRetryStart to now.
getTransientBackoff(count, el) ==
    LET e == IF count = 0 THEN 0 ELSE el
    IN IF e >= RETRY_WALL_TIME_MS
       THEN [retry |-> FALSE, count |-> count, elapsed |-> e, delay |-> -1]
       ELSE [retry |-> TRUE, count |-> count + 1, elapsed |-> e,
             delay |-> backoffDelay(count + 1, e)]

\* emit (index.ts:433-439): the last status handed to onUpdate and how many
\* terminal statuses were handed over so far (2 stands for two or more).
emit(em, status) ==
    [last |-> status,
     terminals |-> IF status = "running" THEN em.terminals
                   ELSE Min(2, em.terminals + 1)]

NoResult == [summary |-> "", files |-> "none"]

NoHist == [consecEmpty |-> 0, noFinishRetries |-> 0, toolTurns |-> 0]

\* Tool results are kept as the sequence of their words and brackets, so
\* that String.prototype.includes is decided on the text itself.
includes(text, needle) ==
    \E i \in 0..(Len(text) - Len(needle)) :
        SubSeq(text, i + 1, i + Len(needle)) = needle

lowerText(text) == [i \in DOMAIN text |-> toLowerCase(text[i])]

isLspToolName(toolName) == toolName = "lsp_symbols" \/ toolName = "lsp_references"

isLspInitTimeoutResult(text) ==
    \/ includes(lowerText(text), <<"initialize", "timed", "out">>)
    \/ includes(lowerText(text), <<"lsp", "request", "initialize", "timed", "out">>)

isLspUnavailableResult(text) ==
    \/ includes(lowerText(text), <<"[", "no", "lsp", "server", "]">>)
    \/ includes(lowerText(text), <<"lsp", "unavailable">>)
    \/ isLspInitTimeoutResult(text)

\* The answer served without a lookup (index.ts:578); lspUnavailableReason
\* is only ever "initialize timeout".
ShortCircuitResult == <<"[", "LSP", "unavailable", ":", "initialize", "timeout", "]">>

\* What executeTool can return for a tool (tools.ts:514-578, lsp-context.ts
\* 160-198, 232-327).
ToolResults(toolName) ==
    CASE toolName = "rg" -> { <<"auth.ts">> }
      [] toolName = "lsp_symbols" ->
            { <<"login", "(", "line", "10", ")">>,
              <<"[", "LSP", "symbols", "unavailable", ":", "No", "LSP", "server",
                "]", "Fallback", "read">> }
      [] OTHER ->
            { <<"References", "auth.ts", ":", "12">>,
              <<"[", "No", "LSP", "server", "]">> }

ToolNames == {"rg", "lsp_symbols", "lsp_references"}

\* One tool call of a turn, as the callback of index.ts:572-588 runs it.
CallOutcomes(unavailable) ==
    UNION { IF isLspToolName(n) /\ unavailable
            THEN { [name |-> n, invoked |-> FALSE, result |-> ShortCircuitResult] }
            ELSE { [name |-> n, invoked |-> TRUE, result |-> r] :
                   r \in ToolResults(n) }
            : n \in ToolNames }

ToolTurns(unavailable) ==
    UNION { [1..n -> CallOutcomes(unavailable)] : n \in 1..MaxToolCalls }

sawLspUnavailable(calls) ==
    \E i \in 1..Len(calls) :
        isLspToolName(calls[i].name) /\ isLspUnavailableResult(calls[i].result)

AgentInit ==
    /\ pc = "loop"
    /\ iterations = 0
    /\ transientRetryCount = 0
    /\ elapsed = 0
    /\ emptyResponseRetries = 0
    /\ finishRetryCount = 0
    /\ finishElapsed = 0
    /\ aborted = FALSE
    /\ pushed = <<"user", "assistant", "toolResult">>
    /\ emitted = [last |-> "none", terminals |-> 0]
    /\ result = NoResult
    /\ backoffMs = 0
    /\ pending = 0
    /\ hist = NoHist
    /\ lspUnavailable = FALSE
    /\ lspUnavailableNotified = FALSE
    /\ executed = <<>>

\* finishWithResult: the agent returns.
Return(summary, files) ==
    /\ pc' = "returned"
    /\ result' = [summary |-> summary, files |-> files]

\* The caller aborts the signal.
Abort ==
    /\ pc \notin {"idle", "returned"}
    /\ ~aborted
    /\ aborted' = TRUE
    /\ UNCHANGED <<pc, iterations, transientRetryCount, elapsed,
                   emptyResponseRetries, finishRetryCount, finishElapsed,
                   pushed, emitted, result, backoffMs, pending, hist>>
    /\ UNCHANGED <<exceptAgent, lspVars>>

\* Top of the while loop (index.ts:481-488): the next completion call starts.
LoopEnter ==
    /\ pc = "loop"
    /\ iterations < MAX_ITERATIONS
    /\ ~aborted
    /\ iterations' = iterations + 1
    /\ emitted' = emit(emitted, "running")
    /\ pushed' = <<>>
    /\ pc' = "call"
    /\ UNCHANGED <<transientRetryCount, elapsed, emptyResponseRetries,
                   finishRetryCount, finishElapsed, aborted,
                   result, backoffMs, pending, hist>>
    /\ UNCHANGED <<exceptAgent, lspVars>>

\* The loop ends (cap reached or signal aborted) and the forced finish starts
\* (index.ts:631-641). transientRetryCount, transientRetryStart and
\* emptyResponseRetries are read by the main loop only: past the loop they are
\* dead locals, kept at 0 here.
LoopExit ==
    /\ pc = "loop"
    /\ (iterations >= MAX_ITERATIONS \/ aborted)
    /\ emitted' = emit(emitted, "running")
    /\ pushed' = <<"user:max-iterations">>
    /\ finishRetryCount' = 0
    /\ finishElapsed' = 0
    /\ transientRetryCount' = 0
    /\ elapsed' = 0
    /\ emptyResponseRetries' = 0
    /\ pc' = "finishCall"
    /\ UNCHANGED <<iterations, aborted, result, backoffMs, pending, hist>>
    /\ UNCHANGED <<exceptAgent, lspVars>>

\* Main loop: complete() throws a rate-limit/5xx error (thrown = TRUE) or
\* resolves with stopReason error/aborted (index.ts:489-517).
TransientFailure ==
    /\ pc = "call"
    /\ \E d \in CallDurations, thrown \in BOOLEAN :
        LET b == getTransientBackoff(transientRetryCount, elapsed + d)
        IN /\ transientRetryCount' = b.count
           /\ elapsed' = b.elapsed
           /\ IF b.retry
              THEN /\ iterations' = iterations - 1
                   /\ backoffMs' = b.delay
                   /\ pc' = "sleep"
                   /\ UNCHANGED <<emitted, result>>
              ELSE /\ emitted' = emit(emitted, "error")
                   /\ Return(IF thrown THEN "LLM error" ELSE "API error", "empty")
                   /\ UNCHANGED <<iterations, backoffMs>>
    /\ pushed' = <<>>
    /\ hist' = [hist EXCEPT !.consecEmpty = 0]
    /\ UNCHANGED <<emptyResponseRetries, finishRetryCount, finishElapsed, aborted,
                   pending>>
    /\ UNCHANGED <<exceptAgent, lspVars>>

\* Main loop: complete() throws an error that is not a rate-limit/5xx one.
OtherFailure ==
    /\ pc = "call"
    /\ emitted' = emit(emitted, "error")
    /\ Return("LLM error", "empty")
    /\ pushed' = <<>>
    /\ hist' = [hist EXCEPT !.consecEmpty = 0]
    /\ UNCHANGED <<iterations, transientRetryCount, elapsed, emptyResponseRetries,
                   finishRetryCount, finishElapsed, aborted, backoffMs, pending>>
    /\ UNCHANGED <<exceptAgent, lspVars>>

\* The backoff timer of the main loop fires.
SleepDone ==
    /\ pc = "sleep"
    /\ elapsed' = elapsed + backoffMs
    /\ backoffMs' = 0
    /\ pc' = "loop"
    /\ pushed' = <<>>
    /\ UNCHANGED <<iterations, transientRetryCount, emptyResponseRetries,
                   finishRetryCount, finishElapsed, aborted,
                   emitted, result, pending, hist>>
    /\ UNCHANGED <<exceptAgent, lspVars>>

\* The retry test for a response without tool calls (index.ts:534).
mayRetryEmptyOnceMore(n) == n <= MAX_EMPTY_RETRIES

mayRetryEmpty(n) == n < MAX_EMPTY_RETRIES

\* Main loop: a response without tool calls, with or without text
\* (index.ts:532-546).
EmptyResponse ==
    /\ pc = "call"
    /\ transientRetryCount' = 0
    /\ elapsed' = 0
    /\ hist' = [hist EXCEPT !.consecEmpty = Min(3, @ + 1)]
    /\ IF mayRetryEmpty(emptyResponseRetries)
       THEN /\ emptyResponseRetries' = emptyResponseRetries + 1
            /\ \E withText \in BOOLEAN :
                 pushed' = (IF withText THEN <<"assistant:text">> ELSE <<>>)
                           \o <<"user:must-call-tool">>
            /\ pc' = "loop"
            /\ UNCHANGED <<emitted, result>>
       ELSE /\ emitted' = emit(emitted, "error")
            /\ Return("No tool calls after retries", "empty")
            /\ pushed' = <<>>
            /\ UNCHANGED emptyResponseRetries
    /\ UNCHANGED <<iterations, finishRetryCount, finishElapsed, aborted,
                   backoffMs, pending>>
    /\ UNCHANGED <<exceptAgent, lspVars>>

\* Main loop: a response with n tool calls, none of them finish; the calls
\* start (index.ts:549-575).
ToolCalls ==
    /\ pc = "call"
    /\ \E calls \in ToolTurns(lspUnavailable) :
         /\ executed' = calls
         /\ pending' = Len(calls)
    /\ transientRetryCount' = 0
    /\ elapsed' = 0
    /\ emptyResponseRetries' = 0
    /\ pushed' = <<"assistant">>
    /\ emitted' = emit(emitted, "running")
    /\ pc' = "tools"
    /\ hist' = [hist EXCEPT !.consecEmpty = 0, !.toolTurns = @ + 1]
    /\ UNCHANGED <<iterations, finishRetryCount, finishElapsed, aborted,
                   result, backoffMs>>
    /\ UNCHANGED <<exceptAgent, lspUnavailable, lspUnavailableNotified>>

\* Promise.all settles with every result: log, history, nudges
\* (index.ts:591-629).
ToolsDone ==
    /\ pc = "tools"
    /\ lspUnavailable' = (lspUnavailable \/ sawLspUnavailable(executed))
    /\ lspUnavailableNotified' = (lspUnavailableNotified \/ lspUnavailable')
    /\ executed' = <<>>
    /\ pushed' = [i \in 1..pending |-> "toolResult"]
                 \o (IF lspUnavailable' /\ ~lspUnavailableNotified
                     THEN <<"user:lsp-unavailable">> ELSE <<>>)
                 \o (IF iterations >= 6 /\ iterations < MAX_ITERATIONS - 1
                     THEN <<"user:wrap-up">> ELSE <<>>)
                 \o (IF iterations = MAX_ITERATIONS - 1
                     THEN <<"user:last-iteration">> ELSE <<>>)
    /\ pending' = 0
    /\ pc' = "loop"
    /\ UNCHANGED <<iterations, transientRetryCount, elapsed, emptyResponseRetries,
                   finishRetryCount, finishElapsed, aborted, emitted, result,
                   backoffMs, hist>>
    /\ UNCHANGED exceptAgent

\* executeTool throws (arguments absent, configuration load rejected):
\* Promise.all rejects and the outer catch ends the run (index.ts:701-706).
ToolsThrow ==
    /\ pc = "tools"
    /\ \E i \in 1..Len(executed) : executed[i].invoked
    /\ executed' = <<>>
    /\ UNCHANGED <<lspUnavailable, lspUnavailableNotified>>
    /\ pending' = 0
    /\ pushed' = <<>>
    /\ emitted' = emit(emitted, "error")
    /\ Return("Agent error", "empty")
    /\ UNCHANGED <<iterations, transientRetryCount, elapsed, emptyResponseRetries,
                   finishRetryCount, finishElapsed, aborted, backoffMs, hist>>
    /\ UNCHANGED exceptAgent

\* Main loop: the response holds a finish call (index.ts:551-568). With the
\* arguments object absent, input.summary throws after emit("done") and the
\* outer catch emits error.
FinishCall ==
    /\ pc = "call"
    /\ transientRetryCount' = 0
    /\ elapsed' = 0
    /\ emptyResponseRetries' = 0
    /\ pushed' = <<"assistant">>
    /\ \E args \in {"object", "absent"} :
        IF args = "object"
        THEN /\ emitted' = emit(emitted, "done")
             /\ Return("parsed", "parsed")
        ELSE /\ emitted' = emit(emit(emitted, "done"), "error")
             /\ Return("Agent error", "empty")
    /\ hist' = [hist EXCEPT !.consecEmpty = 0]
    /\ UNCHANGED <<iterations, finishRetryCount, finishElapsed, aborted, backoffMs,
                   pending>>
    /\ UNCHANGED <<exceptAgent, lspVars>>

\* The retry test of the forced-finish loop (index.ts:645-652, 686-692).
finishBackoff(count, el) ==
    IF el < RETRY_WALL_TIME_MS
    THEN [retry |-> TRUE, count |-> count + 1, delay |-> backoffDelay(count + 1, el)]
    ELSE [retry |-> FALSE, count |-> count, delay |-> -1]

\* break out of the forced-finish loop (index.ts:699-700).
FailedToFinish ==
    /\ emitted' = emit(emitted, "error")
    /\ Return("Failed to get finish call", "empty")

\* Forced finish: complete() throws (any error) or resolves with stopReason
\* error/aborted.
FinishFailure ==
    /\ pc = "finishCall"
    /\ \E d \in CallDurations :
        LET b == finishBackoff(finishRetryCount, finishElapsed + d)
        IN /\ finishElapsed' = finishElapsed + d
           /\ finishRetryCount' = b.count
           /\ IF b.retry
              THEN /\ backoffMs' = b.delay
                   /\ pc' = "finishSleep"
                   /\ UNCHANGED <<emitted, result>>
              ELSE /\ FailedToFinish
                   /\ UNCHANGED backoffMs
    /\ pushed' = <<>>
    /\ hist' = [hist EXCEPT !.consecEmpty = 0]
    /\ UNCHANGED <<iterations, transientRetryCount, elapsed, emptyResponseRetries,
                   aborted, pending>>
    /\ UNCHANGED <<exceptAgent, lspVars>>

\* The backoff timer of the forced-finish loop fires.
FinishSleepDone ==
    /\ pc = "finishSleep"
    /\ finishElapsed' = finishElapsed + backoffMs
    /\ backoffMs' = 0
    /\ pc' = "finishCall"
    /\ pushed' = <<>>
    /\ UNCHANGED <<iterations, transientRetryCount, elapsed, emptyResponseRetries,
                   finishRetryCount, aborted, emitted, result, pending, hist>>
    /\ UNCHANGED <<exceptAgent, lspVars>>

\* The nudge test of the forced-finish loop (index.ts:680).
mayNudgeAlways(count) == count < MAX_FINISH_NUDGES + 1

mayNudge(count) == count < MAX_FINISH_NUDGES

\* Forced finish: a response without a finish call (empty = no tool call at
\* all) (index.ts:679-684).
FinishMissing ==
    /\ pc = "finishCall"
    /\ \E empty \in BOOLEAN :
         hist' = [hist EXCEPT
                    !.consecEmpty = IF empty THEN Min(3, @ + 1) ELSE 0,
                    !.noFinishRetries =
                        IF mayNudge(finishRetryCount) THEN @ + 1 ELSE @]
    /\ IF mayNudge(finishRetryCount)
       THEN /\ finishRetryCount' = finishRetryCount + 1
            /\ UNCHANGED <<pc, emitted, result>>
       ELSE /\ FailedToFinish
            /\ UNCHANGED finishRetryCount
    /\ pushed' = <<>>
    /\ UNCHANGED <<iterations, transientRetryCount, elapsed, emptyResponseRetries,
                   finishElapsed, aborted, backoffMs, pending>>
    /\ UNCHANGED <<exceptAgent, lspVars>>

\* Forced finish: the response holds the finish call (index.ts:663-677). With
\* the arguments object absent, input.summary throws after emit("done") and
\* the catch of the loop (index.ts:685-696) treats it like a failed call.
FinishForced ==
    /\ pc = "finishCall"
    /\ pushed' = <<>>
    /\ hist' = [hist EXCEPT !.consecEmpty = 0]
    /\ \E args \in {"object", "absent"} :
        IF args = "object"
        THEN /\ emitted' = emit(emitted, "done")
             /\ Return("parsed", "parsed")
             /\ UNCHANGED <<finishRetryCount, backoffMs>>
        ELSE LET b == finishBackoff(finishRetryCount, finishElapsed)
             IN /\ finishRetryCount' = b.count
                /\ IF b.retry
                   THEN /\ emitted' = emit(emitted, "done")
                        /\ backoffMs' = b.delay
                        /\ pc' = "finishSleep"
                        /\ UNCHANGED result
                   ELSE /\ emitted' = emit(emit(emitted, "done"), "error")
                        /\ Return("Failed to get finish call", "empty")
                        /\ UNCHANGED backoffMs
    /\ UNCHANGED <<iterations, transientRetryCount, elapsed, emptyResponseRetries,
                   finishElapsed, aborted, pending>>
    /\ UNCHANGED <<exceptAgent, lspVars>>

AgentStep ==
    \/ LoopEnter \/ LoopExit
    \/ TransientFailure \/ OtherFailure \/ SleepDone
    \/ EmptyResponse \/ ToolCalls \/ ToolsDone \/ ToolsThrow \/ FinishCall
    \/ FinishFailure \/ FinishSleepDone \/ FinishMissing \/ FinishForced

AgentNext == AgentStep \/ Abort

\* ---------------------------------------------------------------------------
\* SpecMerge: the merge of the agents' selections into fileMap
\* (index.ts:1030-1097), with betterConfidence and dedupeRanges
\* ---------------------------------------------------------------------------
\* Bound on the number of selections merged.
MaxContributions == 2

CONFIDENCE_RANK(c) ==
    CASE c = "low" -> 0
      [] c = "medium" -> 1
      [] c = "high" -> 2

\* Confidence merges that keep one side whatever the ranks.
lastConfidence(current, incoming) == incoming

firstConfidence(current, incoming) == current

\* betterConfidence (index.ts:284-291); "unset" is undefined.
betterConfidence(current, incoming) ==
    IF current = "unset" THEN incoming
    ELSE IF incoming = "unset" THEN current
    ELSE IF CONFIDENCE_RANK(incoming) > CONFIDENCE_RANK(current)
         THEN incoming ELSE current

\* The entry fileMap.set creates for a file seen first (index.ts:1041-1052).
newEntry(sel) ==
    [file |-> sel.file, ranges |-> <<>>, symbols |-> <<>>,
     reason |-> sel.reason, confidence |-> sel.confidence, queries |-> {}]

\* One selection merged into the entry of its file (index.ts:1054-1069).
\* Reasons are word sequences; includes is String.prototype.includes.
mergeInto(entry, sel, query) ==
    [file |-> entry.file,
     queries |-> entry.queries \cup {query},
     ranges |-> IF sel.ranges # <<>>
                THEN dedupeRanges(entry.ranges \o sel.ranges)
                ELSE entry.ranges,
     symbols |-> IF sel.symbols # <<>>
                 THEN dedupeFrom(<<>>, entry.symbols \o sel.symbols)
                 ELSE entry.symbols,
     confidence |-> betterConfidence(entry.confidence, sel.confidence),
     reason |-> IF sel.reason # <<>>
                   /\ ~(entry.reason # <<>> /\ includes(entry.reason, sel.reason))
                THEN (IF entry.reason # <<>>
                      THEN entry.reason \o <<";">> \o sel.reason
                      ELSE sel.reason)
                ELSE entry.reason]

\* One iteration of the loop over r.files (index.ts:1037-1070).
mergeOne(map, c) ==
    IF \E i \in 1..Len(map) : map[i].file = c.sel.file
    THEN [i \in 1..Len(map) |->
            IF map[i].file = c.sel.file
            THEN mergeInto(map[i], c.sel, c.query) ELSE map[i]]
    ELSE Append(map, mergeInto(newEntry(c.sel), c.sel, c.query))

RECURSIVE mergeFrom(_, _)
mergeFrom(map, cs) ==
    IF cs = <<>> THEN map ELSE mergeFrom(mergeOne(map, Head(cs)), Tail(cs))

mergeAll(cs) == mergeFrom(<<>>, cs)

\* candidateSelections and queryInfoByFile (index.ts:1087-1097).
toMergedSelection(entry) ==
    [sel |-> [file |-> entry.file, ranges |-> entry.ranges,
              symbols |-> entry.symbols, reason |-> entry.reason,
              confidence |-> entry.confidence],
     info |-> [queryCount |-> Cardinality(entry.queries),
               shared |-> (Cardinality(entry.queries) > 1)]]

buildCandidates(map) == [i \in 1..Len(map) |-> toMergedSelection(map[i])]

\* What a normalized selection of an agent asks for, with its reason.
ContributionShapes ==
    { [ranges |-> <<>>, symbols |-> <<>>, reason |-> <<"auth">>],
      [ranges |-> <<Range(10, 40)>>, symbols |-> <<"login">>,
       reason |-> <<"auth", "flow">>],
      [ranges |-> <<Range(1, 5), Range(10, 40)>>, symbols |-> <<"Parse", "login">>,
       reason |-> <<"db">>] }

MergeConfidences == {"unset", "low", "medium", "high"}

MergeQueries == {"how does auth work", "database schema"}

MergeFiles == {"auth.ts", "db.ts"}

\* A selection of the result of the agent of queries[index], with q.query.
Contributions ==
    { [index |-> i, query |-> q,
       sel |-> [file |-> f, ranges |-> s.ranges, symbols |-> s.symbols,
                reason |-> s.reason, confidence |-> c]] :
      i \in {1, 2}, q \in MergeQueries, f \in MergeFiles,
      s \in ContributionShapes, c \in MergeConfidences }

\* An invocation of two queries, whose texts may be the same (they may differ
\* in their hints only).
MergeInit ==
    /\ mgQueries \in [{1, 2} -> MergeQueries]
    /\ contributions = <<>>
    /\ fileMap = <<>>
    /\ mgPhase = "merging"
    /\ mergedSelections = <<>>

\* The loop body runs on the next selection of the agents' results: results
\* are walked by index (index.ts:1032-1034), each with the text of its query.
mergeSelection ==
    /\ mgPhase = "merging"
    /\ Len(contributions) < MaxContributions
    /\ \E c \in Contributions :
         /\ c.query = mgQueries[c.index]
         /\ \A k \in 1..Len(contributions) : contributions[k].index <= c.index
         /\ contributions' = Append(contributions, c)
         /\ fileMap' = mergeOne(fileMap, c)
    /\ UNCHANGED <<mgPhase, mergedSelections, mgQueries>>
    /\ UNCHANGED exceptMerge

\* The loop is over: the merged selection list is built.
mergeDone ==
    /\ mgPhase = "merging"
    /\ mgPhase' = "merged"
    /\ mergedSelections' = buildCandidates(fileMap)
    /\ UNCHANGED <<contributions, fileMap, mgQueries>>
    /\ UNCHANGED exceptMerge

MergeNext == mergeSelection \/ mergeDone

\* ---------------------------------------------------------------------------
\* SpecRequest: execute (index.ts:960-1184) from the settled agents to its
\* return, with the exceptions its stages can raise
\* ---------------------------------------------------------------------------
\* Bound on the number of queries of one request.
MaxAgents == 2

\* A try block that ends before the merge.
tryCoversAgentsOnly(stage) == stage = "agents"

\* The try block of execute spans its whole body (index.ts:961-1171).
tryCovers(stage) == stage \in {"agents", "merge", "read", "pack", "render"}

\* The catch of execute (index.ts:1171-1183), or the exception leaving it.
raise(stage) ==
    IF tryCovers(stage)
    THEN [phase |-> "returned",
          response |-> [status |-> "error", text |-> "fatal", sections |-> 0,
                        files |-> {}]]
    ELSE [phase |-> "propagated", response |-> <<>>]

respond(status, text, n, files) ==
    [phase |-> "returned",
     response |-> [status |-> status, text |-> text, sections |-> n,
                   files |-> files]]

\* The selections of the results, with the query that gave them, in the
\* order the merge loop visits them (index.ts:1032-1038).
RECURSIVE contributionsFrom(_, _)
contributionsFrom(rs, i) ==
    IF i > Len(rs) THEN <<>>
    ELSE [k \in 1..Len(rs[i].files) |-> [query |-> i, sel |-> rs[i].files[k]]]
         \o contributionsFrom(rs, i + 1)

\* allNotFound.push(...r.notFound) (index.ts:1072) throws on a truthy value
\* that is not iterable.
spreadThrows(notFound) == notFound = "notIterable"

\* execute after Promise.all (index.ts:1024-1170).
executeRest(rs, n, load, raised) ==
    IF \E i \in 1..Len(rs) : rs[i].outcome = "rejected" THEN raise("agents")
    ELSE IF \E i \in 1..Len(rs) : spreadThrows(rs[i].notFound) THEN raise("merge")
    ELSE LET merged == buildCandidates(mergeAll(contributionsFrom(rs, 1)))
         IN IF merged = <<>> THEN respond("error", "No relevant code found", n, {})
            ELSE IF raised = "read" THEN raise("read")
            ELSE LET entries == readFileSelections(merged, load)
                 IN IF entries = <<>>
                    THEN respond("error", "No readable code surfaced", n, {})
                    ELSE IF raised = "pack" THEN raise("pack")
                    ELSE LET chunks == forceAccept(packSelectionChunks(
                                          entries, getQueryScaledBudgets(n)))
                         IN IF raised = "render" THEN raise("render")
                            ELSE respond("done", "Summary", n,
                                         {chunks[i].file : i \in 1..Len(chunks)})

\* Normalized selections an agent's finish call may name.
RequestSelections ==
    { [file |-> "auth.ts", ranges |-> <<>>, symbols |-> <<>>,
       reason |-> <<"auth">>, confidence |-> "high"],
      [file |-> "auth.ts", ranges |-> <<>>, symbols |-> <<"login">>,
       reason |-> <<"auth", "flow">>, confidence |-> "unset"],
      [file |-> "bundle.js", ranges |-> <<Range(1, 160)>>, symbols |-> <<>>,
       reason |-> <<"db">>, confidence |-> "low"],
      [file |-> "missing.ts", ranges |-> <<>>, symbols |-> <<>>,
       reason |-> <<"db">>, confidence |-> "medium"] }

\* What a runMiniAgent promise settles with, and the last status the agent
\* handed to onUpdate ("running" is also what its AgentState starts with): a
\* rejection (getApiKey rejects, onUpdate throws in the catch), the early
\* return for a missing model or API key (index.ts:343-351: no files, no
\* status handed over), a terminal error (no files), or the parsed finish
\* call, whose not_found is handed on as the model wrote it.
AgentOutcomes ==
    { [outcome |-> "rejected", status |-> "error", files |-> <<>>,
       notFound |-> "absent"],
      [outcome |-> "returned", status |-> "running", files |-> <<>>,
       notFound |-> "absent"],
      [outcome |-> "returned", status |-> "error", files |-> <<>>,
       notFound |-> "absent"] }
    \cup { [outcome |-> "returned", status |-> "done", files |-> fs,
            notFound |-> nf] :
            fs \in {<<>>} \cup {<<s>> : s \in RequestSelections},
            nf \in {"absent", "array", "notIterable"} }

\* agentStates (index.ts:982-990, 1015-1019): "running" at creation, then
\* whatever state the agent handed to onUpdate last.
agentStatesOf(rs) == [i \in 1..Len(rs) |-> rs[i].status]

\* The aggregate status of a progress update (index.ts:1001-1010).
aggregateStatus(states) ==
    IF \A i \in 1..Len(states) : states[i] # "running"
    THEN (IF \E i \in 1..Len(states) : states[i] = "error" THEN "error" ELSE "done")
    ELSE "running"

\* details.agents of the value execute returns (index.ts:1083, 1103, 1156,
\* 1178): agentStates, or the empty array of the fatal result.
detailsAgents(rs, resp) ==
    IF resp.text = "fatal" THEN <<>> ELSE agentStatesOf(rs)

RequestInit ==
    /\ queriesLength \in 1..MaxAgents
    /\ contextLoad \in {"ok", "fail"}
    /\ fault \in {"none", "read", "pack", "render"}
    /\ results = <<>>
    /\ rqPhase = "agents"
    /\ response = <<>>

\* The promise of the next agent, in query order, settles.
agentSettles ==
    /\ rqPhase = "agents"
    /\ Len(results) < queriesLength
    /\ \E r \in AgentOutcomes : results' = Append(results, r)
    /\ UNCHANGED <<queriesLength, contextLoad, fault, rqPhase, response>>
    /\ UNCHANGED exceptRequest

\* Promise.all settles and execute runs to its end.
executeReturns ==
    /\ rqPhase = "agents"
    /\ Len(results) = queriesLength
    /\ LET out == executeRest(results, queriesLength, contextLoad, fault)
       IN /\ rqPhase' = out.phase
          /\ response' = out.response
    /\ UNCHANGED <<queriesLength, contextLoad, fault, results>>
    /\ UNCHANGED exceptRequest

RequestNext == agentSettles \/ executeReturns

\* ---------------------------------------------------------------------------
\* SpecContext: createLspContext (lsp-context.ts:64-121) and its requesters,
\* the lsp_* tool calls of the agents and resolveSymbolRanges
\* ---------------------------------------------------------------------------
\* Bound on the number of concurrent requesters of the configuration.
MaxRequesters == 4

Requesters == 1..MaxRequesters

\* A requester that takes the configuration for loaded whatever happened.
getConfigAssumesLoaded(cfg, err, promise) == "ok"

\* getConfig (lsp-context.ts:79-83): the memoized config, the memoized
\* error, or the promise of the one load ("awaiting" while it is pending).
getConfig(cfg, err, promise) ==
    IF cfg # "null" THEN "ok"
    ELSE IF err # "null" THEN "fail"
    ELSE CASE promise = "fulfilled" -> "ok"
           [] promise = "rejected" -> "fail"
           [] OTHER -> "awaiting"

\* Before execute reaches line 979.
ContextInit ==
    /\ configPromise = "none"
    /\ config = "null"
    /\ loadError = "null"
    /\ loadsStarted = 0
    /\ requests = [r \in Requesters |-> "idle"]

\* createLspContext: loadConfig(cwd) is called once, at creation.
createLspContext ==
    /\ configPromise = "none"
    /\ configPromise' = "pending"
    /\ loadsStarted' = loadsStarted + 1
    /\ UNCHANGED <<config, loadError, requests>>
    /\ UNCHANGED exceptContext

\* loadConfig settles: the then/catch handlers of lines 68-76 run.
loadSettles ==
    /\ configPromise = "pending"
    /\ \E ok \in BOOLEAN :
         /\ configPromise' = (IF ok THEN "fulfilled" ELSE "rejected")
         /\ config' = (IF ok THEN "loaded" ELSE "null")
         /\ loadError' = (IF ok THEN "null" ELSE "error")
    /\ UNCHANGED <<loadsStarted, requests>>
    /\ UNCHANGED exceptContext

\* A tool call or resolveSymbolRanges asks for the configuration
\* (await getConfig()), before, during or after the load.
requestConfig ==
    /\ configPromise # "none"
    /\ \E r \in Requesters :
         /\ requests[r] = "idle"
         /\ requests' = [requests EXCEPT
                           ![r] = getConfig(config, loadError, configPromise)]
    /\ UNCHANGED <<configPromise, config, loadError, loadsStarted>>
    /\ UNCHANGED exceptContext

\* The continuation of a requester that awaited the pending promise.
resumeRequest ==
    /\ configPromise \in {"fulfilled", "rejected"}
    /\ \E r \in Requesters :
         /\ requests[r] = "awaiting"
         /\ requests' = [requests EXCEPT
                           ![r] = getConfig(config, loadError, configPromise)]
    /\ UNCHANGED <<configPromise, config, loadError, loadsStarted>>
    /\ UNCHANGED exceptContext

ContextNext == createLspContext \/ loadSettles \/ requestConfig \/ resumeRequest

\* ---------------------------------------------------------------------------
\* SpecNormalize: normalizeSelection (index.ts:243-282) on one raw selection
\* of a finish payload
\* ---------------------------------------------------------------------------
\* Bound on the raw ranges plus raw symbols of the selection.
MaxRawItems == 2

\* A JavaScript number: finite (v, in tenths), NaN, Infinity or -Infinity.
Fin(v) == [k |-> "fin", v |-> v]
NaN == [k |-> "nan", v |-> 0]
Infinity == [k |-> "inf", v |-> 0]
NegInfinity == [k |-> "ninf", v |-> 0]

\* JavaScript values of the payload.
JsNumber(n) == [t |-> "number", n |-> n, s |-> "", pad |-> FALSE]
JsString(s, pad) == [t |-> "string", n |-> NaN, s |-> s, pad |-> pad]
JsNull == [t |-> "null", n |-> NaN, s |-> "", pad |-> FALSE]
JsUndefined == [t |-> "undefined", n |-> NaN, s |-> "", pad |-> FALSE]

\* A string with white space around it (pad) and its trim().
trim(str) == [str EXCEPT !.pad = FALSE]

\* Number(x): a number is itself, null is 0, undefined is NaN, a string is
\* the number it spells (the empty or blank string is 0) or NaN.
Number(x) ==
    CASE x.t = "number" -> x.n
      [] x.t = "null" -> Fin(0)
      [] x.t = "string" ->
            (CASE x.s = "" -> Fin(0)
               [] x.s = "7" -> Fin(70)
               [] x.s = "2.7" -> Fin(27)
               [] OTHER -> NaN)
      [] OTHER -> NaN

\* A truncation that keeps the fraction.
keepFraction(x) == x

\* Math.trunc: towards zero.
MathTrunc(x) ==
    IF x.k # "fin" THEN x
    ELSE IF x.v >= 0 THEN Fin(x.v - (x.v % 10))
    ELSE Fin(0 - ((0 - x.v) - ((0 - x.v) % 10)))

\* Math.max(1, x): NaN if x is NaN.
MathMaxOne(x) ==
    CASE x.k = "nan" -> NaN
      [] x.k = "inf" -> Infinity
      [] x.k = "ninf" -> Fin(10)
      [] OTHER -> Fin(Max(10, x.v))

isFinite(x) == x.k = "fin"

\* coerceArray (tools.ts:437-464): an array is itself; a string that one of
\* the three parsing layers turns into an array is that array; anything else
\* is the empty array.
coerceArray(raw) ==
    IF raw.as \in {"array", "json"} THEN raw.items ELSE <<>>

\* r?.start of an element of the array, which may be null.
fieldOf(r, name) == IF r.t = "object" THEN r[name] ELSE JsUndefined

RECURSIVE normalizeRangesFrom(_)
normalizeRangesFrom(items) ==
    IF items = <<>> THEN <<>>
    ELSE LET r == [start |-> MathMaxOne(MathTrunc(Number(fieldOf(Head(items), "start")))),
                   end |-> MathMaxOne(MathTrunc(Number(fieldOf(Head(items), "end"))))]
         IN (IF isFinite(r.start) /\ isFinite(r.end) /\ r.end.v >= r.start.v
             THEN <<r>> ELSE <<>>)
            \o normalizeRangesFrom(Tail(items))

normalizeRanges(raw) == normalizeRangesFrom(coerceArray(raw))

\* .filter(s => typeof s === "string").map(s => s.trim()).filter(Boolean)
RECURSIVE trimmedStrings(_)
trimmedStrings(items) ==
    IF items = <<>> THEN <<>>
    ELSE (IF Head(items).t = "string" /\ Head(items).s # ""
          THEN <<trim(Head(items))>> ELSE <<>>)
         \o trimmedStrings(Tail(items))

\* coerceConfidence (index.ts:243-248); "unset" is undefined.
coerceConfidence(raw) ==
    IF raw.t # "string" THEN "unset"
    ELSE IF toLowerCase(trim(raw).s) \in {"high", "medium", "low"}
         THEN toLowerCase(trim(raw).s)
         ELSE "unset"

DefaultReason == JsString("Relevant to query", FALSE)

\* normalizeSelection (index.ts:260-282): the empty sequence for null, else
\* the selection, alone in a sequence; an absent list (undefined) is the
\* empty sequence.
normalizeSelection(raw) ==
    IF raw.t # "object" THEN <<>>
    ELSE IF raw.file.t # "string" \/ trim(raw.file).s = "" THEN <<>>
    ELSE << [file |-> trim(raw.file),
          ranges |-> normalizeRanges(raw.ranges),
          symbols |-> dedupeFrom(<<>>, trimmedStrings(coerceArray(raw.symbols))),
          reason |-> IF raw.reason.t = "string" /\ trim(raw.reason).s # ""
                     THEN trim(raw.reason) ELSE DefaultReason,
          confidence |-> coerceConfidence(raw.confidence)] >>

RawRange(start, end) == [t |-> "object", start |-> start, end |-> end]

\* Elements of a raw ranges array: objects whose fields are fractions,
\* numeric strings, null, absent, Infinity, in either order; or null.
RawRangeChoices ==
    { RawRange(JsNumber(Fin(27)), JsString("7", FALSE)),
      RawRange(JsNumber(Fin(50)), JsNumber(Fin(27))),
      RawRange(JsNumber(Fin(5)), JsNumber(Fin(-25))),
      RawRange(JsNumber(Fin(-25)), JsNumber(Fin(50))),
      RawRange(JsNull, JsNumber(Fin(50))),
      RawRange(JsUndefined, JsNumber(Fin(50))),
      RawRange(JsNumber(Fin(50)), JsString("abc", FALSE)),
      RawRange(JsNumber(Fin(27)), JsNumber(Infinity)),
      RawRange(JsString("7", FALSE), JsString("7", FALSE)),
      [t |-> "null", start |-> JsUndefined, end |-> JsUndefined] }

\* Elements of a raw symbols array.
RawSymbolChoices ==
    { JsString("foo", FALSE), JsString("foo", TRUE), JsString("Foo", FALSE),
      JsString("", TRUE), JsString("", FALSE), JsNumber(Fin(30)), JsNull }

RawFileChoices ==
    { JsString("a.ts", FALSE), JsString("a.ts", TRUE), JsString("", TRUE),
      JsUndefined }

RawConfidenceChoices ==
    { JsString("HIGH", TRUE), JsString("certain", FALSE), JsUndefined }

RawReasonChoices == { JsString("auth logic", TRUE), JsString("", TRUE) }

RawSelection(t, file, reason, confidence, as) ==
    [t |-> t, file |-> file, reason |-> reason, confidence |-> confidence,
     ranges |-> [as |-> as, items |-> <<>>],
     symbols |-> [as |-> "array", items |-> <<>>]]

\* The raw selection before its lists are filled: an object with any path,
\* reason and confidence, whose ranges arrive as an array, as a stringified
\* array that parses or as a string that does not; or null.
NormalizeInit ==
    /\ nzRaw \in
         { RawSelection("object", f, r, c, "array") :
             f \in RawFileChoices, r \in RawReasonChoices,
             c \in RawConfidenceChoices }
         \cup { RawSelection("object", JsString("a.ts", FALSE),
                             JsString("auth logic", TRUE), JsUndefined, as) :
                  as \in {"json", "junk"} }
         \cup { RawSelection("null", JsUndefined, JsUndefined, JsUndefined,
                             "array") }
    /\ nzPhase = "raw"
    /\ nzOut = <<>>

\* The payload has one more element in the selection's ranges.
nzAddRange ==
    /\ nzPhase = "raw"
    /\ Len(nzRaw.ranges.items) + Len(nzRaw.symbols.items) < MaxRawItems
    /\ \E r \in RawRangeChoices :
         nzRaw' = [nzRaw EXCEPT !.ranges.items = Append(@, r)]
    /\ UNCHANGED <<nzPhase, nzOut>>
    /\ UNCHANGED exceptNormalize

\* The payload has one more element in the selection's symbols.
nzAddSymbol ==
    /\ nzPhase = "raw"
    /\ Len(nzRaw.ranges.items) + Len(nzRaw.symbols.items) < MaxRawItems
    /\ \E s \in RawSymbolChoices :
         nzRaw' = [nzRaw EXCEPT !.symbols.items = Append(@, s)]
    /\ UNCHANGED <<nzPhase, nzOut>>
    /\ UNCHANGED exceptNormalize

\* execute normalizes the raw selection (index.ts:1038).
nzNormalize ==
    /\ nzPhase = "raw"
    /\ nzPhase' = "normalized"
    /\ nzOut' = normalizeSelection(nzRaw)
    /\ UNCHANGED nzRaw
    /\ UNCHANGED exceptNormalize

NormalizeNext == nzAddRange \/ nzAddSymbol \/ nzNormalize

\* ---------------------------------------------------------------------------
\* SpecTurn: the message history and the tool-call log of runMiniAgent
\* (index.ts:407-415, 480-484, 532-606, 630-700), one step per continuation
\* of the event loop
\* ---------------------------------------------------------------------------
\* Bound on the tool turns of the run.
MaxTurns == 2

\* Tools a turn calls here (no finish call: that response ends the run).
TurnToolNames == {"rg", "lsp_symbols"}

\* The tool calls of one response: one to MaxToolCalls calls, each with the
\* id the model gave it.
TurnCalls ==
    UNION { [1..n -> TurnToolNames] : n \in 1..MaxToolCalls }

toolCall(turn, i, name) == [id |-> <<turn, i>>, name |-> name]

\* Bound on the forced-finish responses that hold a finish call.
MaxForcedFinishes == 2

\* The assistant message of a response (index.ts:551): the ids of the tool
\* calls in its content.
assistantMessage(turn, calls) ==
    [role |-> "assistant", id |-> <<turn, 0>>,
     calls |-> [i \in 1..Len(calls) |-> calls[i].id]]

userMessage(text) == [role |-> "user", text |-> text]

\* A result message that carries the id of the first call of its turn.
resultOfFirstCall(call) == [role |-> "toolResult", id |-> <<call.id[1], 1>>]

\* The toolResult message pushed for one executed call (index.ts:593-600).
resultMessage(call) == [role |-> "toolResult", id |-> call.id]

\* The synthetic prefill call (index.ts:398, 407-415): the user message, the
\* assistant message with the call prefill_rg, its result; and its log entry.
prefillToolCall == toolCall(0, 1, "rg")

\* emptyResponseRetries as the history shows it: the "You must call a tool"
\* messages pushed since the last tool result (index.ts:534-549).
RECURSIVE emptyRetriesIn(_)
emptyRetriesIn(messages) ==
    IF messages = <<>> THEN 0
    ELSE LET last == messages[Len(messages)]
             before == SubSeq(messages, 1, Len(messages) - 1)
         IN IF last.role = "toolResult" THEN 0
            ELSE IF last = userMessage("must-call-tool")
            THEN 1 + emptyRetriesIn(before)
            ELSE emptyRetriesIn(before)

finishesIn(log) == Cardinality({ k \in 1..Len(log) : log[k].name = "finish" })

\* An array of results in the order the promises settled.
inSettleOrder(calls, settled) == [k \in 1..Len(settled) |-> calls[settled[k]]]

\* What Promise.all resolves to (index.ts:571-589): one element per input
\* promise, in the order of the input array.
promiseAll(calls, settled) == [k \in 1..Len(calls) |-> calls[k]]

TurnInit ==
    /\ tnPhase = "call"
    /\ tnTurn = 0
    /\ tnCalls = <<>>
    /\ tnStarted = {}
    /\ tnSettled = <<>>
    /\ tnMessages = << userMessage("query"),
                       assistantMessage(0, <<prefillToolCall>>),
                       resultMessage(prefillToolCall) >>
    /\ tnLog = <<prefillToolCall>>

\* The completion call returns a response with tool calls: the assistant
\* message is pushed (index.ts:551) and toolCalls.map runs every callback up
\* to its await of executeTool (index.ts:571-580), all in one continuation.
tnFanOut ==
    /\ tnPhase = "call"
    /\ tnTurn < MaxTurns
    /\ tnTurn' = tnTurn + 1
    /\ \E names \in TurnCalls :
         /\ tnCalls' = [i \in 1..Len(names) |-> toolCall(tnTurn + 1, i, names[i])]
         /\ tnStarted' = 1..Len(names)
    /\ tnSettled' = <<>>
    /\ tnMessages' = Append(tnMessages, assistantMessage(tnTurn + 1, tnCalls'))
    /\ tnPhase' = "tools"
    /\ UNCHANGED tnLog
    /\ UNCHANGED exceptTurn

\* The promise of one started call fulfils, in any order.
tnSettle ==
    /\ tnPhase = "tools"
    /\ \E i \in tnStarted :
         /\ \A k \in 1..Len(tnSettled) : tnSettled[k] # i
         /\ tnSettled' = Append(tnSettled, i)
    /\ UNCHANGED <<tnPhase, tnTurn, tnCalls, tnStarted, tnMessages, tnLog>>
    /\ UNCHANGED exceptTurn

\* executeTool throws in one call: Promise.all rejects at once and the catch
\* of runMiniAgent ends the run (index.ts:701-706).
tnReject ==
    /\ tnPhase = "tools"
    /\ Len(tnSettled) < Len(tnCalls)
    /\ tnPhase' = "error"
    /\ UNCHANGED <<tnTurn, tnCalls, tnStarted, tnSettled, tnMessages, tnLog>>
    /\ UNCHANGED exceptTurn

\* Every promise has fulfilled: Promise.all resolves, the for loop appends
\* each result to allToolCalls and to messages (index.ts:591-606) and the
\* while loop issues the next completion call.
tnJoin ==
    /\ tnPhase = "tools"
    /\ Len(tnSettled) = Len(tnCalls)
    /\ LET joined == promiseAll(tnCalls, tnSettled)
       IN /\ tnLog' = tnLog \o joined
          /\ tnMessages' = tnMessages \o
                [k \in 1..Len(joined) |-> resultMessage(joined[k])]
    /\ tnPhase' = "call"
    /\ UNCHANGED <<tnTurn, tnCalls, tnStarted, tnSettled>>
    /\ UNCHANGED exceptTurn

\* The completion call returns a response without tool calls
\* (index.ts:532-546): its text, if any, and the "You must call a tool"
\* message are pushed and the loop continues, or the run ends in error.
tnEmpty ==
    /\ tnPhase = "call"
    /\ tnTurn < MaxTurns
    /\ tnTurn' = tnTurn + 1
    /\ IF mayRetryEmpty(emptyRetriesIn(tnMessages))
       THEN /\ \E withText \in BOOLEAN :
                 tnMessages' = tnMessages
                     \o (IF withText THEN <<assistantMessage(tnTurn + 1, <<>>)>>
                         ELSE <<>>)
                     \o <<userMessage("must-call-tool")>>
            /\ UNCHANGED tnPhase
       ELSE /\ tnPhase' = "error"
            /\ UNCHANGED tnMessages
    /\ UNCHANGED <<tnCalls, tnStarted, tnSettled, tnLog>>
    /\ UNCHANGED exceptTurn

\* The completion call returns a response with a finish call, alone or with
\* one more call (index.ts:551-568): the assistant message is pushed, the
\* finish call is logged, no call is executed and the run ends (in error when
\* the arguments object is absent).
tnFinish ==
    /\ tnPhase = "call"
    /\ tnTurn < MaxTurns
    /\ tnTurn' = tnTurn + 1
    /\ \E extra \in BOOLEAN, args \in {"object", "absent"} :
         LET calls == <<toolCall(tnTurn + 1, 1, "finish")>>
                      \o (IF extra THEN <<toolCall(tnTurn + 1, 2, "rg")>> ELSE <<>>)
         IN /\ tnMessages' = Append(tnMessages, assistantMessage(tnTurn + 1, calls))
            /\ tnLog' = Append(tnLog, calls[1])
            /\ tnPhase' = (IF args = "object" THEN "done" ELSE "error")
    /\ UNCHANGED <<tnCalls, tnStarted, tnSettled>>
    /\ UNCHANGED exceptTurn

\* The loop ends, by its cap or by the abort signal, and the forced-finish
\* phase pushes its message (index.ts:481-482, 631-632).
tnForce ==
    /\ tnPhase = "call"
    /\ tnMessages' = Append(tnMessages, userMessage("max-iterations"))
    /\ tnPhase' = "forced"
    /\ UNCHANGED <<tnTurn, tnCalls, tnStarted, tnSettled, tnLog>>
    /\ UNCHANGED exceptTurn

\* A forced completion call returns the finish call (index.ts:663-677): it is
\* logged; with the arguments object absent the catch retries inside the
\* window or gives up (index.ts:685-696).
tnForcedFinish ==
    /\ tnPhase = "forced"
    /\ finishesIn(tnLog) < MaxForcedFinishes
    /\ tnLog' = Append(tnLog, toolCall(tnTurn + 1, finishesIn(tnLog) + 1, "finish"))
    /\ \E args \in {"object", "absent"}, inWindow \in BOOLEAN :
         tnPhase' = (IF args = "object" THEN "done"
                     ELSE IF inWindow THEN "forced" ELSE "error")
    /\ UNCHANGED <<tnTurn, tnCalls, tnStarted, tnSettled, tnMessages>>
    /\ UNCHANGED exceptTurn

\* A forced completion call fails or returns no finish call and the phase
\* gives up (index.ts:642-652, 679-684, 699-700); a retry changes neither the
\* history nor the log.
tnForcedGiveUp ==
    /\ tnPhase = "forced"
    /\ tnPhase' = "error"
    /\ UNCHANGED <<tnTurn, tnCalls, tnStarted, tnSettled, tnMessages, tnLog>>
    /\ UNCHANGED exceptTurn

TurnNext ==
    \/ tnFanOut \/ tnSettle \/ tnReject \/ tnJoin
    \/ tnEmpty \/ tnFinish \/ tnForce \/ tnForcedFinish \/ tnForcedGiveUp

\* ---------------------------------------------------------------------------
\* SpecPatterns: the patterns of an agent's smart tree (index.ts:353-375,
\* smart-tree.ts:17-75, 127-161), on strings
\* ---------------------------------------------------------------------------
\* Bounds on the words of the query and on the hints of the hints text.
MaxWords == 2

MaxHints == 2

UpperCaseLetters == "ABCDEFGHIJKLMNOPQRSTUVWXYZ"

LowerCaseLetters == "abcdefghijklmnopqrstuvwxyz"

Digits == "0123456789"

charAt(s, i) == SubSeq(s, i, i)

hasChar(s, c) == \E i \in 1..Len(s) : charAt(s, i) = c

lowerChar(c) ==
    IF hasChar(UpperCaseLetters, c)
    THEN charAt(LowerCaseLetters,
                CHOOSE i \in 1..Len(UpperCaseLetters) : charAt(UpperCaseLetters, i) = c)
    ELSE c

\* String.prototype.toLowerCase, character by character.
RECURSIVE strToLowerCase(_)
strToLowerCase(s) ==
    IF s = "" THEN ""
    ELSE lowerChar(charAt(s, 1)) \o strToLowerCase(SubSeq(s, 2, Len(s)))

\* replace(/[^a-zA-Z0-9]/g, "") (index.ts:362; smart-tree.ts:145 on a
\* lowercased word).
RECURSIVE stripNonAlnum(_)
stripNonAlnum(s) ==
    IF s = "" THEN ""
    ELSE LET c == charAt(s, 1)
             keep == hasChar(UpperCaseLetters, c) \/ hasChar(LowerCaseLetters, c)
                     \/ hasChar(Digits, c)
         IN (IF keep THEN c ELSE "") \o stripNonAlnum(SubSeq(s, 2, Len(s)))

\* String.prototype.trim on texts whose only white space is the blank.
RECURSIVE strTrim(_)
strTrim(s) ==
    IF s = "" THEN ""
    ELSE IF charAt(s, 1) = " " THEN strTrim(SubSeq(s, 2, Len(s)))
    ELSE IF charAt(s, Len(s)) = " " THEN strTrim(SubSeq(s, 1, Len(s) - 1))
    ELSE s

\* String.prototype.split on a one-character separator: the pieces between
\* the separators, empty ones included.
RECURSIVE splitFrom(_, _, _)
splitFrom(s, sep, piece) ==
    IF s = "" THEN <<piece>>
    ELSE IF charAt(s, 1) = sep
    THEN <<piece>> \o splitFrom(SubSeq(s, 2, Len(s)), sep, "")
    ELSE splitFrom(SubSeq(s, 2, Len(s)), sep, piece \o charAt(s, 1))

split(s, sep) == splitFrom(s, sep, "")

\* A run of blanks counts as one separator.
RECURSIVE collapseBlanks(_)
collapseBlanks(s) ==
    IF Len(s) < 2 THEN s
    ELSE IF charAt(s, 1) = " " /\ charAt(s, 2) = " "
    THEN collapseBlanks(SubSeq(s, 2, Len(s)))
    ELSE charAt(s, 1) \o collapseBlanks(SubSeq(s, 2, Len(s)))

\* split(/\s+/)
splitWhitespace(s) == split(collapseBlanks(s), " ")

endsWith(s, suf) ==
    Len(s) >= Len(suf) /\ SubSeq(s, Len(s) - Len(suf) + 1, Len(s)) = suf

\* smart-tree.ts:19-24
suffixes ==
    << "ational", "ization", "fulness", "iveness", "ousness",
       "ation", "ement", "ment", "ness", "ence", "ance", "able", "ible", "ling",
       "ing", "ion", "ity", "ous", "ive", "ful", "ess", "ist", "ism",
       "ed", "er", "ly", "al", "en", "es", "s" >>

\* A stemmer that strips nothing.
stemNothing(word) == strToLowerCase(word)

\* stem (smart-tree.ts:17-31): the first suffix of the list that the word
\* ends with and that leaves more than two characters is cut off.
stem(word) ==
    LET w == strToLowerCase(word)
        fits == { i \in 1..Len(suffixes) :
                    Len(w) > Len(suffixes[i]) + 2 /\ endsWith(w, suffixes[i]) }
    IN IF fits = {} THEN w
       ELSE LET first == CHOOSE i \in fits : \A j \in fits : i <= j
            IN SubSeq(w, 1, Len(w) - Len(suffixes[first]))

\* smart-tree.ts:33-56
STOPWORDS ==
    { "a", "an", "the", "and", "or", "but", "in", "on", "at", "to", "for",
      "of", "with", "by", "from", "as", "is", "was", "are", "were", "been",
      "be", "have", "has", "had", "do", "does", "did", "will", "would", "could",
      "should", "may", "might", "must", "shall", "can", "need", "dare", "ought",
      "used", "using", "use", "uses", "get", "gets", "got", "go", "goes", "gone",
      "make", "makes", "made", "take", "takes", "took", "come", "comes", "came",
      "want", "wants", "wanted", "look", "looks", "looked", "give", "gives", "gave",
      "think", "thinks", "thought", "know", "knows", "knew", "see", "sees", "saw",
      "find", "finds", "found", "tell", "tells", "told", "ask", "asks", "asked",
      "work", "works", "worked", "working", "seem", "seems", "seemed", "feel",
      "try", "tries", "tried", "leave", "leaves", "left", "call", "calls", "called",
      "it", "its", "this", "that", "these", "those", "what", "which", "who", "whom",
      "how", "when", "where", "why", "all", "each", "every", "both", "few", "more",
      "most", "other", "some", "such", "no", "not", "only", "same", "so", "than",
      "too", "very", "just", "also", "now", "here", "there", "then", "once",
      "function", "class", "const", "let", "var", "type", "interface",
      "export", "import", "return", "async", "await", "new",
      "file", "files", "code", "data", "value", "values", "list", "item",
      "create", "update", "delete", "run", "runs", "running",
      "exist", "exists", "available", "different", "specific", "actually" }

\* The first loop of extractPatterns (smart-tree.ts:131-140): the extra
\* patterns, trimmed and lowercased, of three characters or more, once each.
RECURSIVE addExtraPatterns(_, _)
addExtraPatterns(patterns, extras) ==
    IF extras = <<>> THEN patterns
    ELSE LET clean == strToLowerCase(strTrim(Head(extras)))
         IN addExtraPatterns(
                IF Len(clean) >= 3 /\ ~InSeq(clean, patterns)
                THEN Append(patterns, clean) ELSE patterns,
                Tail(extras))

\* The second loop of extractPatterns (smart-tree.ts:143-158): the words of
\* the query, with their stems.
RECURSIVE addQueryWords(_, _)
addQueryWords(patterns, words) ==
    IF words = <<>> THEN patterns
    ELSE LET clean == stripNonAlnum(Head(words))
             stemmed == stem(clean)
             withWord == Append(patterns, clean)
         IN addQueryWords(
                IF Len(clean) < 3 \/ clean \in STOPWORDS \/ InSeq(clean, patterns)
                THEN patterns
                ELSE IF stemmed # clean /\ Len(stemmed) >= 3
                        /\ ~InSeq(stemmed, withWord)
                THEN Append(withWord, stemmed)
                ELSE withWord,
                Tail(words))

\* extractPatterns (smart-tree.ts:127-161); seen holds what patterns holds.
extractPatterns(query, extraPatterns) ==
    addQueryWords(addExtraPatterns(<<>>, extraPatterns),
                  splitWhitespace(strToLowerCase(query)))

\* The hints of runMiniAgent's pattern list (index.ts:355-360).
RECURSIVE hintPatterns(_)
hintPatterns(pieces) ==
    IF pieces = <<>> THEN <<>>
    ELSE (IF strTrim(Head(pieces)) # "" THEN <<strTrim(Head(pieces))>> ELSE <<>>)
         \o hintPatterns(Tail(pieces))

\* The query words of runMiniAgent's pattern list (index.ts:361-366).
RECURSIVE agentQueryWords(_, _)
agentQueryWords(patterns, words) ==
    IF words = <<>> THEN patterns
    ELSE LET clean == stripNonAlnum(Head(words))
         IN agentQueryWords(
                IF Len(clean) >= 4 /\ ~InSeq(strToLowerCase(clean), patterns)
                THEN Append(patterns, strToLowerCase(clean)) ELSE patterns,
                Tail(words))

\* The extraPatterns runMiniAgent hands to getSmartTree (index.ts:353-375).
agentPatterns(query, hints) ==
    agentQueryWords(IF hints # "" THEN hintPatterns(split(hints, ",")) ELSE <<>>,
                    splitWhitespace(query))

\* The patterns getSmartTree scores the files with (smart-tree.ts:490-495).
scannerPatterns(query, hints) ==
    extractPatterns(query, agentPatterns(query, hints))

\* Words a query is made of, and hints of a hints text.
QueryWords == {"where", "is", "Auth-Service", "needs", "parsing", "db"}

HintWords == {"the", " Login ", "db"}

PatternsInit ==
    /\ ptQuery = ""
    /\ ptHints = ""
    /\ ptPhase = "input"
    /\ ptPatterns = <<>>

\* The caller writes one more word of the query.
ptAddWord ==
    /\ ptPhase = "input"
    /\ Len(split(ptQuery, " ")) < MaxWords \/ ptQuery = ""
    /\ \E w \in QueryWords :
         ptQuery' = (IF ptQuery = "" THEN w ELSE ptQuery \o " " \o w)
    /\ UNCHANGED <<ptHints, ptPhase, ptPatterns>>
    /\ UNCHANGED exceptPatterns

\* The caller writes one more hint, after a comma.
ptAddHint ==
    /\ ptPhase = "input"
    /\ Len(split(ptHints, ",")) < MaxHints \/ ptHints = ""
    /\ \E h \in HintWords :
         ptHints' = (IF ptHints = "" THEN h ELSE ptHints \o "," \o h)
    /\ UNCHANGED <<ptQuery, ptPhase, ptPatterns>>
    /\ UNCHANGED exceptPatterns

\* runMiniAgent builds its pattern list and getSmartTree extracts the
\* patterns it searches with.
ptExtract ==
    /\ ptPhase = "input"
    /\ ptPatterns' = scannerPatterns(ptQuery, ptHints)
    /\ ptPhase' = "extracted"
    /\ UNCHANGED <<ptQuery, ptHints>>
    /\ UNCHANGED exceptPatterns

PatternsNext == ptAddWord \/ ptAddHint \/ ptExtract

\* ---------------------------------------------------------------------------
\* SpecBroker: the handlers of broker.ts (start, done/error, cancel, wait,
\* close) for one agent. A message is handled when it is sent: the agent
\* sends start when a turn begins and one done or error when the turn ends,
\* interrupted or not; cancels and waits come at any time.
\* ---------------------------------------------------------------------------
\* Bounds on the turns of the agent, the wait connections and the cancels.
MaxBrokerTurns == 2

MaxSockets == 2

MaxCancels == 2

\* agents.get(id) (broker.ts:21-26, 42-47).
AgentState == [turn |-> brTurn, status |-> brStatus, cancelled |-> brCancelled,
               result |-> brResult]

AgentEvent(type, turn) == [type |-> type, turn |-> turn]

\* A start that leaves the cancelled flag as it is.
startTurnKeepFlag(agent) ==
    [agent EXCEPT !.turn = @ + 1, !.status = "working", !.result = <<>>]

\* case "start" (broker.ts:66-70).
startTurn(agent) ==
    [agent EXCEPT !.turn = @ + 1, !.status = "working", !.cancelled = FALSE,
                  !.result = <<>>]

\* A notification that reaches only the socket at the head of the queue.
notifyFirst(answers, waiting, msg) ==
    [s \in DOMAIN answers |->
        IF waiting # <<>> /\ waiting[1] = s
        THEN Append(answers[s], [msg |-> msg, immediate |-> FALSE])
        ELSE answers[s]]

\* The for loops over the waiters (broker.ts:103-109, 125-136): the message
\* is written to every queued socket.
notifyWaiters(answers, waiting, msg) ==
    [s \in DOMAIN answers |->
        IF InSeq(s, waiting)
        THEN Append(answers[s], [msg |-> msg, immediate |-> FALSE])
        ELSE answers[s]]

handled(type, stale) ==
    << [type |-> type, stale |-> stale, turn |-> brTurn, status |-> brStatus,
        seq |-> IF brLast = <<>> THEN 1 ELSE brLast[1].seq + 1] >>

BrokerInit ==
    /\ brTurn = 0
    /\ brStatus = "idle"
    /\ brCancelled = FALSE
    /\ brResult = <<>>
    /\ brWaiters = <<>>
    /\ brAgentWorking = FALSE
    /\ brCancelledTurns = {}
    /\ brAnswers = <<>>
    /\ brSockets = 0
    /\ brClosed = {}
    /\ brCancels = 0
    /\ brLast = <<>>

\* case "start" (broker.ts:64-74): the agent begins a turn; a turn that was
\* cancelled may have ended without a signal.
brStart ==
    /\ brTurn < MaxBrokerTurns
    /\ ~brAgentWorking \/ brTurn \in brCancelledTurns
    /\ LET agent == startTurn(AgentState)
       IN /\ brTurn' = agent.turn
          /\ brStatus' = agent.status
          /\ brCancelled' = agent.cancelled
          /\ brResult' = agent.result
    /\ brAgentWorking' = TRUE
    /\ brLast' = handled("start", FALSE)
    /\ UNCHANGED <<brWaiters, brCancelledTurns, brAnswers, brSockets, brClosed,
                   brCancels>>
    /\ UNCHANGED exceptBroker

\* case "done", case "error" (broker.ts:76-113): the agent's turn ends.
brDone ==
    /\ brAgentWorking
    /\ brAgentWorking' = FALSE
    /\ \E type \in {"done", "error"} :
         IF brCancelled
         THEN /\ brCancelled' = FALSE
              /\ brLast' = handled(type, TRUE)
              /\ UNCHANGED <<brStatus, brResult, brWaiters, brAnswers>>
         ELSE /\ brStatus' = type
              /\ brResult' = <<AgentEvent(type, brTurn)>>
              /\ brAnswers' = notifyWaiters(brAnswers, brWaiters,
                                            AgentEvent(type, brTurn))
              /\ brWaiters' = <<>>
              /\ brLast' = handled(type, FALSE)
              /\ UNCHANGED brCancelled
    /\ UNCHANGED <<brTurn, brCancelledTurns, brSockets, brClosed, brCancels>>
    /\ UNCHANGED exceptBroker

\* case "cancel" (broker.ts:115-140): sent before the agent is interrupted.
brCancel ==
    /\ brCancels < MaxCancels
    /\ brCancels' = brCancels + 1
    /\ brStatus' = "idle"
    /\ brCancelled' = TRUE
    /\ brResult' = <<>>
    /\ brAnswers' = notifyWaiters(brAnswers, brWaiters,
                                  AgentEvent("cancelled", brTurn))
    /\ brWaiters' = <<>>
    /\ brCancelledTurns' = (IF brAgentWorking THEN brCancelledTurns \cup {brTurn}
                            ELSE brCancelledTurns)
    /\ brLast' = handled("cancel", FALSE)
    /\ UNCHANGED <<brTurn, brAgentWorking, brSockets, brClosed>>
    /\ UNCHANGED exceptBroker

\* case "wait" (broker.ts:142-156) on a new connection.
brWait ==
    /\ brSockets < MaxSockets
    /\ brSockets' = brSockets + 1
    /\ IF brStatus = "done" \/ brStatus = "error"
       THEN /\ brAnswers' = Append(brAnswers,
                                   <<[msg |-> brResult[1], immediate |-> TRUE]>>)
            /\ UNCHANGED brWaiters
       ELSE /\ brAnswers' = Append(brAnswers, <<>>)
            /\ brWaiters' = Append(brWaiters, brSockets + 1)
    /\ brLast' = handled("wait", FALSE)
    /\ UNCHANGED <<brTurn, brStatus, brCancelled, brResult, brAgentWorking,
                   brCancelledTurns, brClosed, brCancels>>
    /\ UNCHANGED exceptBroker

\* close, error (broker.ts:191-200): a queued client goes away.
brClose ==
    /\ \E k \in 1..Len(brWaiters) :
         /\ brClosed' = brClosed \cup {brWaiters[k]}
         /\ brWaiters' = [j \in 1..(Len(brWaiters) - 1) |->
                            IF j < k THEN brWaiters[j] ELSE brWaiters[j + 1]]
    /\ brLast' = handled("close", FALSE)
    /\ UNCHANGED <<brTurn, brStatus, brCancelled, brResult, brAgentWorking,
                   brCancelledTurns, brAnswers, brSockets, brCancels>>
    /\ UNCHANGED exceptBroker

BrokerNext == brStart \/ brDone \/ brCancel \/ brWait \/ brClose

\* ---------------------------------------------------------------------------
\* Specifications
\* ---------------------------------------------------------------------------
PackIdle ==
    /\ queryCount = 1 /\ lspLoad = "ok" /\ candidates = <<>>
    /\ xPhase = "merge" /\ allEntries = <<>> /\ packed = <<>>
    /\ included = <<>> /\ omittedEntries = <<>> /\ details = <<>>

AgentIdle ==
    /\ pc = "idle" /\ iterations = 0 /\ transientRetryCount = 0 /\ elapsed = 0
    /\ emptyResponseRetries = 0 /\ finishRetryCount = 0 /\ finishElapsed = 0
    /\ aborted = FALSE /\ pushed = <<>>
    /\ emitted = [last |-> "none", terminals |-> 0]
    /\ result = NoResult /\ backoffMs = 0 /\ pending = 0 /\ hist = NoHist
    /\ lspUnavailable = FALSE /\ lspUnavailableNotified = FALSE
    /\ executed = <<>>

ResolveIdle ==
    /\ rsTotalLines = 1 /\ rsSymbols = 0 /\ rsRanges = <<>>
    /\ rsSymRanges = <<>> /\ rsNames = <<>> /\ rsPhase = "input"
    /\ rsEntries = <<>>

ContextIdle ==
    /\ configPromise = "none" /\ config = "null" /\ loadError = "null"
    /\ loadsStarted = 0 /\ requests = <<>>

MergeIdle ==
    /\ mgQueries = <<>>
    /\ contributions = <<>> /\ fileMap = <<>> /\ mgPhase = "merging"
    /\ mergedSelections = <<>>

RequestIdle ==
    /\ queriesLength = 0 /\ contextLoad = "ok" /\ fault = "none"
    /\ results = <<>> /\ rqPhase = "agents" /\ response = <<>>

TurnIdle ==
    /\ tnPhase = "call" /\ tnTurn = 0 /\ tnCalls = <<>> /\ tnStarted = {}
    /\ tnSettled = <<>> /\ tnMessages = <<>> /\ tnLog = <<>>

NormalizeIdle ==
    /\ nzRaw = <<>> /\ nzPhase = "raw" /\ nzOut = <<>>

PatternsIdle ==
    /\ ptQuery = "" /\ ptHints = "" /\ ptPhase = "input" /\ ptPatterns = <<>>

BrokerIdle ==
    /\ brTurn = 0 /\ brStatus = "idle" /\ brCancelled = FALSE /\ brResult = <<>>
    /\ brWaiters = <<>> /\ brAgentWorking = FALSE /\ brCancelledTurns = {}
    /\ brAnswers = <<>> /\ brSockets = 0 /\ brClosed = {} /\ brCancels = 0
    /\ brLast = <<>>

InitResolve ==
    /\ TurnIdle
    /\ ResolveInit /\ PackIdle /\ AgentIdle /\ ContextIdle /\ MergeIdle /\ RequestIdle
    /\ NormalizeIdle
    /\ PatternsIdle /\ BrokerIdle

InitPack ==
    /\ TurnIdle
    /\ PackInit /\ ResolveIdle /\ AgentIdle /\ ContextIdle /\ MergeIdle /\ RequestIdle
    /\ NormalizeIdle
    /\ PatternsIdle /\ BrokerIdle

InitAgent ==
    /\ TurnIdle
    /\ AgentInit /\ ResolveIdle /\ PackIdle /\ ContextIdle /\ MergeIdle /\ RequestIdle
    /\ NormalizeIdle
    /\ PatternsIdle /\ BrokerIdle

InitContext ==
    /\ TurnIdle
    /\ ContextInit /\ ResolveIdle /\ PackIdle /\ AgentIdle /\ MergeIdle /\ RequestIdle
    /\ NormalizeIdle
    /\ PatternsIdle /\ BrokerIdle

InitMerge ==
    /\ TurnIdle
    /\ MergeInit /\ ResolveIdle /\ PackIdle /\ AgentIdle /\ ContextIdle /\ RequestIdle
    /\ NormalizeIdle
    /\ PatternsIdle /\ BrokerIdle

InitRequest ==
    /\ TurnIdle
    /\ RequestInit /\ ResolveIdle /\ PackIdle /\ AgentIdle /\ ContextIdle /\ MergeIdle
    /\ NormalizeIdle
    /\ PatternsIdle /\ BrokerIdle

InitNormalize ==
    /\ NormalizeInit /\ ResolveIdle /\ PackIdle /\ AgentIdle /\ ContextIdle
    /\ MergeIdle /\ RequestIdle /\ TurnIdle
    /\ PatternsIdle /\ BrokerIdle

InitTurn ==
    /\ TurnInit /\ ResolveIdle /\ PackIdle /\ AgentIdle /\ ContextIdle
    /\ MergeIdle /\ RequestIdle /\ NormalizeIdle
    /\ PatternsIdle /\ BrokerIdle

InitPatterns ==
    /\ PatternsInit /\ ResolveIdle /\ PackIdle /\ AgentIdle /\ ContextIdle
    /\ MergeIdle /\ RequestIdle /\ NormalizeIdle /\ TurnIdle /\ BrokerIdle

InitBroker ==
    /\ BrokerInit /\ ResolveIdle /\ PackIdle /\ AgentIdle /\ ContextIdle
    /\ MergeIdle /\ RequestIdle /\ NormalizeIdle /\ TurnIdle /\ PatternsIdle

SpecResolve == InitResolve /\ [][ResolveNext]_vars

SpecPack == InitPack /\ [][PackNext]_vars

SpecAgent == InitAgent /\ [][AgentNext]_vars

SpecContext == InitContext /\ [][ContextNext]_vars

SpecMerge == InitMerge /\ [][MergeNext]_vars

SpecRequest == InitRequest /\ [][RequestNext]_vars

SpecNormalize == InitNormalize /\ [][NormalizeNext]_vars

SpecTurn == InitTurn /\ [][TurnNext]_vars

SpecPatterns == InitPatterns /\ [][PatternsNext]_vars

SpecBroker == InitBroker /\ [][BrokerNext]_vars

\* The event loop runs every continuation that is ready: a settled call, a
\* fired timer. The caller is never obliged to abort.
SpecAgentFair == SpecAgent /\ WF_vars(AgentStep)

\* ---------------------------------------------------------------------------
\* Claims
\* ---------------------------------------------------------------------------
AllRanges(entries, P(_, _)) ==
    \A i \in 1..Len(entries) :
        \A j \in 1..Len(entries[i].ranges) :
            P(entries[i].ranges[j], entries[i].totalLines)

RangeInFile(r, totalLines) == 1 <= r.start /\ r.start <= r.end /\ r.end <= totalLines

\* C4: every range of every chunk readFileSelections produces satisfies
\* 1 <= start <= end <= totalLines(file), whatever the explicit ranges, the
\* ranges the symbol lookup returned, or the fallback.
C4_RangesInsideFile ==
    rsPhase = "resolved" => AllRanges(rsEntries, RangeInFile)

\* C4 witness: a chunk was produced from an explicit range that ends past the
\* end of the file together with a symbol range whose end precedes its start.
C4_Witness ==
    /\ rsPhase = "resolved"
    /\ rsEntries # <<>>
    /\ \E i \in 1..Len(rsRanges) : rsRanges[i].end > rsTotalLines
    /\ \E i \in 1..Len(rsSymRanges) : rsSymRanges[i].end < rsSymRanges[i].start

\* The strength test as the specification words it: high confidence, or
\* shared and symbol-backed, or at least two symbols without fallback.
IsStrong(e) ==
    \/ e.confidence = "high"
    \/ (e.queryCount > 1 /\ Len(e.symbols) > 0)
    \/ (Len(e.symbols) >= 2 /\ ~e.fallbackUsed)

\* Token cost the walk charges for a chunk.
WalkCost(e) == IF e.estimatedTokens < 1 THEN 1 ELSE e.estimatedTokens

RECURSIVE RunningTotal(_, _)
RunningTotal(es, i) == IF i = 0 THEN 0 ELSE WalkCost(es[i]) + RunningTotal(es, i - 1)

\* Every chunk of es that moved the running total above soft is strong and
\* left the total within hard.
WalkRespectsBudgets(es, soft, hard) ==
    \A i \in 1..Len(es) :
        RunningTotal(es, i) > soft =>
            IsStrong(es[i]) /\ RunningTotal(es, i) <= hard

Returned == xPhase = "returned" /\ details.status = "done"

\* C1 as claimed: the token costs of the included chunks sum to at most the
\* hard budget.
C1_Original ==
    Returned => details.tokenCount <= details.tokenBudgetHard

\* C1 amended: the included chunks sum to at most the hard budget, unless the
\* budget walk accepted nothing and the included set is the one force-accepted
\* chunk.
C1_WithinHardUnlessForced ==
    Returned =>
        \/ details.tokenCount <= details.tokenBudgetHard
        \/ (packed.included = <<>> /\ Len(included) = 1)

\* C1 witness: two chunks were included, the second beyond the soft budget.
C1_Witness ==
    /\ Returned
    /\ Len(included) = 2
    /\ details.tokenCount > details.tokenBudgetSoft

\* C2 as claimed: a non-empty fileMap gives a non-empty included set.
C2_Original ==
    (xPhase = "returned" /\ details.candidateFileCount >= 1) => included # <<>>

\* C2 amended: when readFileSelections yields at least one chunk, the included
\* set is not empty.
C2_ChunkSurfaced ==
    (xPhase = "returned" /\ allEntries # <<>>) => included # <<>>

\* C2 witness: the walk accepted nothing and a chunk is surfaced all the same.
C2_Witness ==
    /\ Returned
    /\ packed.included = <<>>
    /\ Len(included) = 1

\* C3 as claimed: in the final included set every chunk that moved the running
\* total above soft is strong and left it within hard.
C3_Original ==
    Returned =>
        WalkRespectsBudgets(included, details.tokenBudgetSoft, details.tokenBudgetHard)

\* C3 amended: the same holds of the chunks the budget walk accepted; the
\* final included set is that set, except that when the walk accepted nothing
\* it is the single first-ranked chunk, whatever its strength and cost.
C3_WalkRespectsBudgets ==
    Returned =>
        /\ WalkRespectsBudgets(packed.included, details.tokenBudgetSoft,
                               details.tokenBudgetHard)
        /\ \A i \in 1..Len(packed.omitted) :
               ~IsStrong(packed.omitted[i]) =>
                   \E k \in 0..Len(packed.included) :
                       RunningTotal(packed.included, k) + WalkCost(packed.omitted[i])
                           > details.tokenBudgetSoft
        /\ IF packed.included # <<>> THEN included = packed.included
           ELSE included = <<packed.omitted[1]>>

\* C3 witness: a strong chunk was accepted above soft and a chunk that is not
\* strong was omitted in the same run.
C3_Witness ==
    /\ Returned
    /\ \E i \in 1..Len(included) :
          /\ RunningTotal(included, i) > details.tokenBudgetSoft
          /\ details.tokenBudgetSoft < details.tokenBudgetHard
    /\ packed.included # <<>>

\* ---- runMiniAgent ----------------------------------------------------------
Forced == {"finishCall", "finishSleep"}

C6_OneTerminalStatus == emitted.terminals <= 1

\* C7: a transient failure of the main loop inside the 30 s window consumes
\* no iteration, pushes no message and starts a backoff of
\* min(500 * 2^(n-1), 30000 - elapsed) ms; the first one at or after 30 s
\* ends the run in error with no files; the first failure of a streak opens
\* the window; a successful call resets it.
C7_TransientRetry ==
    [][ /\ TransientFailure =>
            /\ pushed' = <<>>
            /\ IF elapsed' >= RETRY_WALL_TIME_MS
               THEN /\ pc' = "returned"
                    /\ emitted'.last = "error"
                    /\ result'.files = "empty"
               ELSE /\ pc' = "sleep"
                    /\ iterations' = iterations - 1
                    /\ transientRetryCount' = transientRetryCount + 1
                    /\ backoffMs' = Min(500 * Pow2(transientRetryCount),
                                        30000 - elapsed')
                    /\ emitted' = emitted
            /\ transientRetryCount = 0 => elapsed' = 0
        /\ (EmptyResponse \/ ToolCalls \/ FinishCall) => transientRetryCount' = 0
      ]_vars

\* C7 witness: the window ran out through the backoffs alone and the seventh
\* failure of the streak ended the run.
C7_Witness ==
    /\ pc = "returned"
    /\ result.summary = "API error"
    /\ transientRetryCount = 6
    /\ elapsed = RETRY_WALL_TIME_MS

\* C8 as claimed: a third consecutive response without tool calls always ends
\* the run in error with the summary "No tool calls after retries".
C8_Original ==
    (~aborted /\ hist.consecEmpty >= 3) =>
        /\ pc = "returned"
        /\ emitted.last = "error"
        /\ result.summary = "No tool calls after retries"

\* C8 amended: in the main loop a response without tool calls pushes the
\* corrective message and is retried while the counter is below 2, and ends
\* the run in error "No tool calls after retries" when the counter is at 2;
\* the counter never exceeds 2 and a turn with a tool call resets it. (A
\* third empty response that arrives after the main loop ended is handled by
\* the forced-finish phase.)
C8_EmptyRetries ==
    /\ [](emptyResponseRetries <= 2)
    /\ [][ /\ EmptyResponse =>
               IF emptyResponseRetries < 2
               THEN /\ emptyResponseRetries' = emptyResponseRetries + 1
                    /\ pushed'[Len(pushed')] = "user:must-call-tool"
                    /\ pc' = "loop"
                    /\ emitted' = emitted
               ELSE /\ pc' = "returned"
                    /\ emitted'.last = "error"
                    /\ result'.summary = "No tool calls after retries"
           /\ (ToolCalls \/ FinishCall) => emptyResponseRetries' = 0
         ]_vars

\* C8 witness: the run ended on the third empty response in a row.
C8_Witness ==
    /\ pc = "returned"
    /\ result.summary = "No tool calls after retries"
    /\ hist.consecEmpty = 3

\* A step taken in the forced-finish phase stays in the phase or returns, runs
\* no tool, sleeps only inside the window, and returns only with the finish
\* call or with "Failed to get finish call".
ForcedStepOk ==
    pc \in Forced =>
        /\ pc' \in Forced \cup {"returned"}
        /\ hist'.toolTurns = hist.toolTurns
        /\ (pc' = "finishSleep" => finishElapsed' < RETRY_WALL_TIME_MS)
        /\ (pc' = "returned" =>
              \/ (result'.summary = "parsed" /\ emitted'.last = "done")
              \/ (result'.summary = "Failed to get finish call"
                  /\ emitted'.last = "error"))

\* C9: iterations never exceeds 15 and tools run in at most 15 turns; once
\* the forced-finish phase starts, no main-loop call and no tool runs again;
\* a forced call is retried after a failure only inside its 30 s window and
\* at most twice for a missing finish call; the phase ends either with the
\* finish call or in error "Failed to get finish call".
C9_IterationGovernor ==
    /\ [](/\ iterations <= MAX_ITERATIONS
          /\ hist.toolTurns <= MAX_ITERATIONS
          /\ hist.noFinishRetries <= 2)
    /\ [][ForcedStepOk]_vars

\* C9 witness: fifteen tool turns, then two nudged forced calls, then error.
C9_Witness ==
    /\ pc = "returned"
    /\ hist.toolTurns = MAX_ITERATIONS
    /\ hist.noFinishRetries = 2
    /\ result.summary = "Failed to get finish call"

\* C10 as claimed: once the signal is aborted the agent starts no further
\* backoff sleep.
C10_NoSleepAfterAbort ==
    [][ aborted => ~(pc \notin {"sleep", "finishSleep"}
                     /\ pc' \in {"sleep", "finishSleep"}) ]_vars

\* C11: once the cancellation signal is set, the agent starts no new
\* model-completion call (main loop or forced finish) and no new tool call.
C11_NoNewCallAfterAbort ==
    [][ aborted => /\ ~(pc # "call" /\ pc' = "call")
                   /\ ~(pc # "finishCall" /\ pc' = "finishCall")
                   /\ ~(pc # "tools" /\ pc' = "tools") ]_vars

\* C14: a turn of tool calls always ends with its results appended and the
\* agent still running, whatever the tools did.
C14_ToolFailureKeepsRunning ==
    [][ pc = "tools" /\ pc' # "tools"
          => pc' = "loop" /\ emitted'.last = "running" ]_vars

\* A tool result that tells the model the capability is unavailable: it says
\* "unavailable", or that there is no LSP server, or that initialization
\* timed out.
ReportsUnavailable(text) ==
    \/ includes(lowerText(text), <<"unavailable">>)
    \/ includes(lowerText(text), <<"no", "lsp", "server">>)
    \/ isLspInitTimeoutResult(text)

\* C12: when a turn ends in which an lsp_symbols or lsp_references result
\* reported "unavailable", the capability is marked unavailable (and so every
\* later lsp_* call is answered without a lookup).
C12_UnavailableMarks ==
    [][ (/\ pc = "tools" /\ pc' = "loop"
         /\ \E i \in 1..Len(executed) :
               /\ isLspToolName(executed[i].name)
               /\ ReportsUnavailable(executed[i].result))
        => lspUnavailable' ]_vars

\* C13: the configuration load is started exactly once per context, however
\* many requesters ask and whenever they ask, and every requester that got an
\* answer got the outcome of that one load.
C13_SingleFlight ==
    /\ loadsStarted <= 1
    /\ (configPromise # "none" => loadsStarted = 1)
    /\ \A r \in DOMAIN requests :
         /\ requests[r] = "ok" => configPromise = "fulfilled"
         /\ requests[r] = "fail" => configPromise = "rejected"
         /\ requests[r] = "awaiting" => configPromise # "none"

\* C13 witness: the load failed; one requester asked while it was pending,
\* another after it settled, and both observed the failure.
C13_Witness ==
    /\ configPromise = "rejected"
    /\ loadsStarted = 1
    /\ \A r \in DOMAIN requests : requests[r] = "fail"
    /\ requests # <<>>

Reverse(s) == [i \in 1..Len(s) |-> s[Len(s) + 1 - i]]

SeqSet(s) == {s[i] : i \in 1..Len(s)}

\* C18: merging the list of selections followed by a second copy of itself
\* gives, for every file, what merging the list once gives.
C18_MergeIdempotent ==
    mgPhase = "merged" =>
        buildCandidates(mergeAll(contributions \o contributions)) = mergedSelections

\* C18 witness: two selections of one file, both with ranges and symbols,
\* have been merged.
C18_Witness ==
    /\ mgPhase = "merged"
    /\ Len(contributions) = 2
    /\ Len(mergedSelections) = 1
    /\ Len(mergedSelections[1].sel.ranges) = 2
    /\ contributions[1].sel.ranges # <<>>
    /\ contributions[2].sel.ranges # <<>>

\* C19 as claimed: merging the contributions in the opposite order gives
\* identical merged selections.
C19_Original ==
    mgPhase = "merged" =>
        SeqSet(buildCandidates(mergeAll(Reverse(contributions))))
            = SeqSet(mergedSelections)

SameUpToOrder(a, b) ==
    /\ a.sel.file = b.sel.file
    /\ SeqSet(a.sel.ranges) = SeqSet(b.sel.ranges)
    /\ SeqSet(a.sel.symbols) = SeqSet(b.sel.symbols)
    /\ a.sel.confidence = b.sel.confidence
    /\ a.info = b.info

\* C19: merging the contributions in the opposite order gives, for every
\* file, the same set of ranges, the same set of symbols, the same confidence,
\* queryCount and shared; the order of ranges and symbols and the text of the
\* reason may differ.
C19_CommutativeUpToOrder ==
    mgPhase = "merged" =>
        LET other == buildCandidates(mergeAll(Reverse(contributions)))
        IN /\ Len(other) = Len(mergedSelections)
           /\ \A i \in 1..Len(mergedSelections) :
                \E j \in 1..Len(other) :
                    SameUpToOrder(mergedSelections[i], other[j])

\* C19 witness: two different contributions to one file, from two queries,
\* whose merge in the opposite order differs in the reason or in an order.
C19_Witness ==
    /\ mgPhase = "merged"
    /\ Len(contributions) = 2
    /\ Len(mergedSelections) = 1
    /\ contributions[1].query # contributions[2].query
    /\ buildCandidates(mergeAll(Reverse(contributions))) # mergedSelections

ConfidenceOrdinal(c) == IF c = "unset" THEN -1 ELSE CONFIDENCE_RANK(c)

\* The ordinal maximum of the confidences contributed to a file.
MaxContributed(f) ==
    LET given == { contributions[i].sel.confidence :
                     i \in { k \in 1..Len(contributions) :
                               contributions[k].sel.file = f } }
    IN CHOOSE c \in given :
         \A d \in given : ConfidenceOrdinal(d) <= ConfidenceOrdinal(c)

\* A step of the merge loop never lowers the confidence of a file, and a
\* selection with unset confidence leaves every confidence as it was.
ConfidenceStepOk ==
    \A i \in 1..Len(fileMap) :
        /\ Len(fileMap') >= i
        /\ fileMap'[i].file = fileMap[i].file
        /\ ConfidenceOrdinal(fileMap'[i].confidence)
               >= ConfidenceOrdinal(fileMap[i].confidence)
        /\ (Len(contributions') > Len(contributions)
            /\ contributions'[Len(contributions')].sel.confidence = "unset"
              => fileMap'[i].confidence = fileMap[i].confidence)

\* C20: the merged confidence of a file is the ordinal maximum of the
\* confidences of its contributions, whatever their order; it never decreases
\* when a contribution is added, and an unset contribution never changes it.
C20_ConfidenceIsMax ==
    /\ [](\A i \in 1..Len(fileMap) :
            fileMap[i].confidence = MaxContributed(fileMap[i].file))
    /\ [][ConfidenceStepOk]_vars

\* C20 witness: high then low, merged into one file, is high.
C20_Witness ==
    /\ Len(contributions) = 2
    /\ Len(fileMap) = 1
    /\ contributions[1].sel.confidence = "high"
    /\ contributions[2].sel.confidence = "low"
    /\ fileMap[1].confidence = "high"

\* A selection readFileSelections turns into a chunk.
ReadableSelection(sel) ==
    readFileSelections(<< [sel |-> sel, info |-> [queryCount |-> 1, shared |-> FALSE]] >>,
                       contextLoad) # <<>>

\* C15: whenever some agent returned a readable selection, whatever the other
\* agents did, the request returns status done with that agent's chunks and
\* one summary section per query.
C15_PartialResultsMerged ==
    (/\ rqPhase = "returned"
     /\ fault = "none"
     /\ \E i \in 1..Len(results) :
          \E k \in 1..Len(results[i].files) : ReadableSelection(results[i].files[k]))
    => /\ response.status = "done"
       /\ response.sections = queriesLength
       /\ \A i \in 1..Len(results) :
            \A k \in 1..Len(results[i].files) :
                ReadableSelection(results[i].files[k])
                    => results[i].files[k].file \in response.files

\* The stage of execute at which an exception was raised, if any.
RaisedStage ==
    IF \E i \in 1..Len(results) : results[i].outcome = "rejected" THEN "agents"
    ELSE IF \E i \in 1..Len(results) : results[i].notFound = "notIterable"
         THEN "merge"
    ELSE IF response # <<>> /\ response.text \in {"No relevant code found"} THEN "none"
    ELSE IF fault = "read" THEN "read"
    ELSE IF response # <<>> /\ response.text \in {"No readable code surfaced"}
         THEN "none"
    ELSE fault

\* C16: execute never lets an exception out: whatever stage raised, it
\* returned status error with the fatal-error text.
C16_NeverPropagates ==
    /\ rqPhase # "propagated"
    /\ (rqPhase = "returned" /\ response.text = "fatal" => response.status = "error")
    /\ (rqPhase = "returned" =>
          (response.text = "fatal" <=> RaisedStage # "none"))

\* C16 witness: every agent returned a readable selection, rendering raised,
\* and execute returned the fatal-error result.
C16_Witness ==
    /\ rqPhase = "returned"
    /\ fault = "render"
    /\ RaisedStage = "render"
    /\ response.status = "error"
    /\ response.text = "fatal"

\* C17: whatever the finish-call payloads of the agents were, the request
\* completes without a fatal error.
C17_FinishPayloadNeverFatal ==
    (/\ rqPhase = "returned"
     /\ fault = "none"
     /\ \A i \in 1..Len(results) : results[i].outcome = "returned")
    => response.text # "fatal"

\* The queries of the invocation, by index, whose agent selected file f.
SelectingQueries(f) ==
    { contributions[k].index :
        k \in { j \in 1..Len(contributions) : contributions[j].sel.file = f } }

\* C21: for every file of the merged list, queryCount is the number of queries
\* of the invocation whose agent selected the file, shared is true exactly
\* when that number exceeds one, and every range contributed by any query is
\* among the file's ranges.
C21_QueryCountIsSelectingQueries ==
    mgPhase = "merged" =>
        \A i \in 1..Len(mergedSelections) :
            LET m == mergedSelections[i]
                n == Cardinality(SelectingQueries(m.sel.file))
            IN /\ m.info.queryCount = n
               /\ m.info.shared = (n > 1)
               /\ \A k \in 1..Len(contributions) :
                    contributions[k].sel.file = m.sel.file
                      => SeqSet(contributions[k].sel.ranges)
                             \subseteq SeqSet(m.sel.ranges)

FilesOf(entries) == { entries[i].file : i \in 1..Len(entries) }

\* C22: in a result with status done, every candidate file that is not
\* included is among the omitted entries the output enumerates (named, or
\* counted in its "+N more" line), so their number is omittedFileCount.
C22_OmittedAllEnumerated ==
    (xPhase = "returned" /\ details.status = "done") =>
        /\ \A i \in 1..Len(candidates) :
             candidates[i].sel.file \notin FilesOf(included)
               => candidates[i].sel.file \in FilesOf(omittedEntries)
        /\ Len(omittedEntries) = details.omittedFileCount

\* Every symbol of a hierarchy, at any depth.
RECURSIVE AllSymbols(_)
AllSymbols(items) ==
    IF items = <<>> THEN {}
    ELSE {Head(items)} \cup AllSymbols(Head(items).children)
                       \cup AllSymbols(Tail(items))

\* The symbols of the file whose name is one of the names asked, compared
\* case-insensitively.
MatchedSymbols ==
    { it \in AllSymbols(DocumentSymbols(rsTotalLines)) :
        \E i \in 1..Len(rsNames) : toLowerCase(rsNames[i]) = toLowerCase(it.name) }

Covered(line, ranges) ==
    \E i \in 1..Len(ranges) : ranges[i].start <= line /\ line <= ranges[i].end

\* The line was cut by a cap: the last span starting at or before it has
\* MAX_LINES_PER_RANGE lines, or is the last span of a chunk that has
\* MAX_LINES_PER_FILE lines.
CutByCap(line, ranges) ==
    \E i \in 1..Len(ranges) :
        /\ ranges[i].start <= line
        /\ \A j \in 1..Len(ranges) : ranges[j].start <= line => j <= i
        /\ \/ RangeLen(ranges[i]) = MAX_LINES_PER_RANGE
           \/ i = Len(ranges) /\ SumLen(ranges) = MAX_LINES_PER_FILE

\* C23 as claimed: the spans of the chunk cover every definition line of
\* every matched symbol.
C23_Original ==
    (rsPhase = "resolved" /\ rsNames # <<>>) =>
        \A it \in MatchedSymbols :
            /\ rsEntries # <<>>
            /\ \A line \in (it.startLine + 1)..(it.endLine + 1) :
                 Covered(line, rsEntries[1].ranges)

\* C23: a chunk is produced for the file, and every definition line of every
\* matched symbol, at any depth, is covered by its spans or was cut by the
\* per-span or the per-file cap.
C23_CoveredUnlessCapped ==
    (rsPhase = "resolved" /\ rsNames # <<>>) =>
        \A it \in MatchedSymbols :
            /\ rsEntries # <<>>
            /\ \A line \in (it.startLine + 1)..(it.endLine + 1) :
                 \/ Covered(line, rsEntries[1].ranges)
                 \/ CutByCap(line, rsEntries[1].ranges)

\* C23 witness: a symbol nested two levels deep, asked for in another case,
\* was matched and its lines are in the chunk next to an explicit range.
C23_Witness ==
    /\ rsPhase = "resolved"
    /\ rsTotalLines = 500
    /\ rsNames = <<"Parse", "validate">>
    /\ rsRanges # <<>>
    /\ rsEntries # <<>>
    /\ \A line \in 70..75 : Covered(line, rsEntries[1].ranges)
    /\ \A line \in 100..120 : Covered(line, rsEntries[1].ranges)

\* The line a raw field denotes, if any: a finite number or a string spelling
\* one, truncated towards zero and raised to at least 1; null counts as 0.
DenotesLine(x) ==
    \/ x.t = "number" /\ x.n.k = "fin"
    \/ x.t = "number" /\ x.n.k = "ninf"
    \/ x.t = "string" /\ x.s \in {"", "7", "2.7"}
    \/ x.t = "null"

LineOf(x) ==
    CASE x.t = "number" /\ x.n.k = "fin" -> Max(1, IF x.n.v >= 0 THEN x.n.v \div 10
                                                    ELSE 0 - ((0 - x.n.v) \div 10))
      [] x.t = "string" /\ x.s = "7" -> 7
      [] x.t = "string" /\ x.s = "2.7" -> 2
      [] OTHER -> 1

KeptRawRange(r) ==
    /\ r.t = "object"
    /\ DenotesLine(r.start) /\ DenotesLine(r.end)
    /\ LineOf(r.end) >= LineOf(r.start)

RECURSIVE ExpectedRanges(_)
ExpectedRanges(items) ==
    IF items = <<>> THEN <<>>
    ELSE (IF KeptRawRange(Head(items))
          THEN << [start |-> Fin(10 * LineOf(Head(items).start)),
                   end |-> Fin(10 * LineOf(Head(items).end))] >>
          ELSE <<>>)
         \o ExpectedRanges(Tail(items))

UsableFile(raw) ==
    raw.t = "object" /\ raw.file.t = "string" /\ raw.file.s # ""

\* What the claim says of a normalized selection, apart from which ranges
\* are dropped.
WellFormedSelection(sel) ==
    /\ sel.file.t = "string" /\ ~sel.file.pad /\ sel.file.s # ""
    /\ \A i \in 1..Len(sel.ranges) :
         /\ isFinite(sel.ranges[i].start) /\ isFinite(sel.ranges[i].end)
         /\ sel.ranges[i].start.v % 10 = 0 /\ sel.ranges[i].end.v % 10 = 0
         /\ 10 <= sel.ranges[i].start.v
         /\ sel.ranges[i].start.v <= sel.ranges[i].end.v
    /\ \A i \in 1..Len(sel.symbols) :
         /\ sel.symbols[i].t = "string" /\ ~sel.symbols[i].pad
         /\ sel.symbols[i].s # ""
         /\ \A j \in 1..Len(sel.symbols) :
              sel.symbols[i] = sel.symbols[j] => i = j
    /\ sel.reason.t = "string" /\ ~sel.reason.pad /\ sel.reason.s # ""
    /\ sel.confidence \in {"low", "medium", "high", "unset"}

\* A field that is no number and spells none.
NonNumeric(x) == x.t \in {"null", "undefined"} \/ (x.t = "string" /\ x.s = "abc")

\* A raw range the claim says is dropped.
ClaimedDropped(r) ==
    \/ r.t # "object"
    \/ NonNumeric(r.start) \/ NonNumeric(r.end)
    \/ /\ r.start.t = "number" /\ r.end.t = "number"
       /\ r.start.n.k = "fin" /\ r.end.n.k = "fin"
       /\ r.end.n.v < r.start.n.v

\* C24 as claimed: the result is null or well formed, and a raw range with
\* end < start or with a non-numeric field leaves no range in the result.
C24_Original ==
    (nzPhase = "normalized" /\ nzOut # <<>>) =>
        /\ WellFormedSelection(nzOut[1])
        /\ Len(nzOut[1].ranges)
             <= Cardinality({ i \in 1..Len(nzRaw.ranges.items) :
                                ~ClaimedDropped(nzRaw.ranges.items[i]) })

\* C24: normalization yields null exactly when the raw selection has no
\* usable file path; otherwise the result has a non-empty trimmed path, ranges
\* that are integers with 1 <= start <= end, duplicate-free non-empty trimmed
\* symbols, a non-empty reason and a confidence that is low, medium, high or
\* unset; the ranges are those of the raw ranges whose two fields denote a
\* line (after truncation and raising to 1) with end >= start, in order.
C24_Normalized ==
    nzPhase = "normalized" =>
        /\ (nzOut = <<>>) = ~UsableFile(nzRaw)
        /\ nzOut # <<>> =>
             /\ WellFormedSelection(nzOut[1])
             /\ nzOut[1].ranges =
                  (IF nzRaw.ranges.as = "junk" THEN <<>>
                   ELSE ExpectedRanges(nzRaw.ranges.items))

\* C24 witness: a selection with a padded path, the range {start: 2.7,
\* end: "7"} and a padded symbol was normalized to path, [2, 7] and the
\* trimmed symbol.
C24_Witness ==
    /\ nzPhase = "normalized"
    /\ nzOut # <<>>
    /\ nzRaw.file.pad
    /\ nzRaw.ranges.items = << [t |-> "object", start |-> JsNumber(Fin(27)),
                                end |-> JsString("7", FALSE)] >>
    /\ nzRaw.symbols.items = << JsString("foo", TRUE) >>
    /\ nzOut[1].ranges = << [start |-> Fin(20), end |-> Fin(70)] >>
    /\ nzOut[1].symbols = << JsString("foo", FALSE) >>

\* The ids of the tool results in the history, in the order of the history.
ToolResultIds ==
    LET at == { k \in 1..Len(tnMessages) : tnMessages[k].role = "toolResult" }
    IN [ k \in 1..Cardinality(at) |->
           tnMessages[CHOOSE m \in at :
                        Cardinality({ j \in at : j <= m }) = k].id ]

\* The ids of the executed calls in the tool-call log, in the order of the log.
LogIds ==
    LET at == { k \in 1..Len(tnLog) : tnLog[k].name # "finish" }
    IN [ k \in 1..Cardinality(at) |->
           tnLog[CHOOSE m \in at :
                    Cardinality({ j \in at : j <= m }) = k].id ]

IdBefore(a, b) == a[1] < b[1] \/ (a[1] = b[1] /\ a[2] < b[2])

InIssueOrder(ids) ==
    \A j, k \in 1..Len(ids) : j < k => IdBefore(ids[j], ids[k])

\* A step that issues a completion call after a tool turn: every call of the
\* turn has its result in the history and its entry in the log.
NextCallAfterAllResults ==
    (tnPhase = "tools" /\ tnPhase' = "call") =>
        \A i \in 1..Len(tnCalls) :
            /\ \E k \in 1..Len(tnMessages') :
                 tnMessages'[k] = [role |-> "toolResult", id |-> tnCalls[i].id]
            /\ \E k \in 1..Len(tnLog') : tnLog'[k] = tnCalls[i]

\* C25: no call of a turn settles before every call of the turn was started;
\* the tool results in the history and the entries of the tool-call log are
\* in the order the calls were issued, whatever the order they settled in;
\* and a completion call is issued only once every result of the previous
\* turn has been appended.
C25_FanOutJoinInOrder ==
    /\ [](tnSettled # <<>> => tnStarted = 1..Len(tnCalls))
    /\ [](InIssueOrder(ToolResultIds) /\ InIssueOrder(LogIds)
          /\ ToolResultIds = LogIds)
    /\ [](tnPhase = "call" =>
            \A i \in 1..Len(tnCalls) :
                \E k \in 1..Len(ToolResultIds) : ToolResultIds[k] = tnCalls[i].id)
    /\ [][NextCallAfterAllResults]_vars

\* C25 witness: two calls of one turn settled second-first, and their results
\* are in the history first-second, before the next completion call.
C25_Witness ==
    /\ tnPhase = "call"
    /\ tnTurn = 1
    /\ Len(tnCalls) = 2
    /\ tnSettled = <<2, 1>>
    /\ ToolResultIds = << <<0, 1>>, <<1, 1>>, <<1, 2>> >>
    /\ LogIds = << <<0, 1>>, <<1, 1>>, <<1, 2>> >>

\* C26: a response of the main loop that holds a finish call ends the run in
\* that turn with status done as the last status, returns the parsed payload
\* and executes no tool call of that response.
C26_FinishCallEndsDone ==
    [][ FinishCall =>
            /\ pc' = "returned"
            /\ emitted'.last = "done"
            /\ result' = [summary |-> "parsed", files |-> "parsed"]
            /\ executed' = <<>> /\ pending' = 0 ]_vars

ChunkTokens(e) == IF e.estimatedTokens < 1 THEN 1 ELSE e.estimatedTokens

\* a is strictly ahead of b in the ranking: higher density (value per token);
\* at equal density higher value; at equal value lower token cost.
Outranks(a, b) ==
    LET va == scoreSelectionMeta(a)
        vb == scoreSelectionMeta(b)
    IN \/ va * ChunkTokens(b) > vb * ChunkTokens(a)
       \/ /\ va * ChunkTokens(b) = vb * ChunkTokens(a)
          /\ \/ va > vb
             \/ va = vb /\ ChunkTokens(a) < ChunkTokens(b)

\* C27: when the budget walk accepted no chunk although chunks exist, the
\* included set is exactly one chunk and no chunk is ahead of it in the
\* ranking.
C27_ForceAcceptsFirstRanked ==
    (Returned /\ allEntries # <<>> /\ packed.included = <<>>) =>
        /\ Len(included) = 1
        /\ InSeq(included[1], allEntries)
        /\ \A i \in 1..Len(allEntries) : ~Outranks(allEntries[i], included[1])
        /\ Len(omittedEntries) = Len(allEntries) - 1

\* C27 witness: two chunks, both rejected by the walk; the one surfaced has
\* the higher density although it costs more tokens than the other.
C27_Witness ==
    /\ Returned
    /\ packed.included = <<>>
    /\ Len(allEntries) = 2
    /\ Len(included) = 1
    /\ \E i \in 1..2 :
         /\ allEntries[i] # included[1]
         /\ allEntries[i].estimatedTokens < included[1].estimatedTokens

\* The ranges the selection names for the file: the explicit ranges and the
\* ranges of the symbol lookup, each brought inside the file; those whose
\* end then precedes their start are not ranges of the file.
InputRangesInFile ==
    LET all == rsRanges \o (IF rsSymbols > 0 THEN rsSymRanges ELSE <<>>)
        inFile(n) == IF n < 1 THEN 1 ELSE IF n > rsTotalLines THEN rsTotalLines ELSE n
    IN { Range(inFile(all[i].start), inFile(all[i].end)) : i \in 1..Len(all) }
       \ { r \in { Range(inFile(all[i].start), inFile(all[i].end)) : i \in 1..Len(all) } :
             r.end < r.start }

\* Sorted by start, disjoint, and the start of each range exceeds the end of
\* the previous one by more than RANGE_MERGE_GAP.
SeparatedSpans(ranges) ==
    \A i \in 1..(Len(ranges) - 1) :
        /\ ranges[i].start < ranges[i + 1].start
        /\ ranges[i + 1].start - ranges[i].end > RANGE_MERGE_GAP

\* Two input ranges that overlap or whose gap is within the threshold are in
\* one span: no span starts after the start of the first and at or before the
\* start of the second.
CloseInputsShareSpan(ranges) ==
    \A a, b \in InputRangesInFile :
        (a.start <= b.start /\ b.start <= a.end + RANGE_MERGE_GAP) =>
            ~\E j \in 1..Len(ranges) :
                a.start < ranges[j].start /\ ranges[j].start <= b.start

\* C28: the ranges of every chunk are sorted by start, pairwise disjoint, and
\* each starts more than RANGE_MERGE_GAP lines after the end of the previous
\* one; input ranges that overlap or lie within that gap of one another are
\* merged into one span.
C28_SpansSortedDisjointSeparated ==
    (rsPhase = "resolved" /\ rsEntries # <<>>) =>
        /\ SeparatedSpans(rsEntries[1].ranges)
        /\ CloseInputsShareSpan(rsEntries[1].ranges)

\* C28 witness: in a 6-line file the ranges [1,4] and [7,7] (which becomes
\* [6,6] in the file) were merged into the single span [1,6].
C28_Witness ==
    /\ rsPhase = "resolved"
    /\ rsTotalLines = 6
    /\ rsRanges = <<Range(7, 7), Range(1, 4)>>
    /\ rsEntries # <<>>
    /\ rsEntries[1].ranges = <<Range(1, 6)>>

\* The merged spans of the selection, before the caps.
MergedSpans ==
    LET collected == collectRanges(rsRanges, rsSymbols, rsSymRanges)
    IN MergeRanges(normalizeAndSort(
          IF collected = <<>> THEN <<fallbackRange(rsTotalLines)>> ELSE collected,
          rsTotalLines))

\* C29: every span of a chunk has at most MAX_LINES_PER_RANGE lines and starts
\* where the merged span of the same position starts and ends no later; the
\* spans total at most MAX_LINES_PER_FILE lines; merged spans are left out
\* only at the end, and only when the spans kept total MAX_LINES_PER_FILE.
C29_SpansCapped ==
    (rsPhase = "resolved" /\ rsEntries # <<>>) =>
        LET spans == rsEntries[1].ranges
        IN /\ \A i \in 1..Len(spans) : RangeLen(spans[i]) <= MAX_LINES_PER_RANGE
           /\ SumLen(spans) <= MAX_LINES_PER_FILE
           /\ Len(spans) <= Len(MergedSpans)
           /\ \A i \in 1..Len(spans) :
                /\ spans[i].start = MergedSpans[i].start
                /\ spans[i].end <= MergedSpans[i].end
           /\ Len(spans) < Len(MergedSpans) => SumLen(spans) = MAX_LINES_PER_FILE

\* C29 witness: three merged spans of 200, 247 and 48 lines were cut to 160
\* and 100 lines, and the third was dropped.
C29_Witness ==
    /\ rsPhase = "resolved"
    /\ rsTotalLines = 500
    /\ rsRanges = <<Range(1, 200), Range(204, 450), Range(453, 500)>>
    /\ rsEntries # <<>>
    /\ rsEntries[1].ranges = <<Range(1, 160), Range(204, 303)>>

\* The chunk readFileSelections produced for a candidate's file, if any.
ChunksOf(f) == { i \in 1..Len(allEntries) : allEntries[i].file = f }

\* C30: every candidate whose file exists has a chunk, symbol lookup failed
\* or not; its fallbackUsed is true exactly when it has no explicit range and
\* the lookup gave no range, and then its ranges are the prefix
\* [1, min(DEFAULT_FALLBACK_LINES, totalLines)].
C30_FallbackSurfaces ==
    xPhase = "returned" =>
        \A c \in 1..Len(candidates) :
            LET f == candidates[c].sel.file
                found == IF lspLoad = "ok"
                         THEN resolveSymbolRanges(f, candidates[c].sel.symbols)
                         ELSE <<>>
                none == candidates[c].sel.ranges = <<>> /\ found = <<>>
            IN Repo[f].exists =>
                 /\ ChunksOf(f) # {}
                 /\ \A i \in ChunksOf(f) :
                      /\ allEntries[i].fallbackUsed = none
                      /\ none => allEntries[i].ranges =
                            << Range(1, IF DEFAULT_FALLBACK_LINES < Repo[f].totalLines
                                        THEN DEFAULT_FALLBACK_LINES
                                        ELSE Repo[f].totalLines) >>

\* The part of the value score a chunk owes to its symbols, and to its ranges.
SymbolWeightOf(meta) ==
    scoreSelectionMeta(meta) - scoreSelectionMeta([meta EXCEPT !.symbols = <<>>])

RangeWeightOf(meta) ==
    scoreSelectionMeta(meta) - scoreSelectionMeta([meta EXCEPT !.ranges = <<>>])

\* C31: a chunk's score holds the symbol weight only if a symbol of its
\* selection was resolved to a range, and the range weight only if its
\* selection supplied explicit ranges; a fallback chunk holds neither.
C31_WeightsNeedEvidence ==
    xPhase = "returned" =>
        \A i \in 1..Len(allEntries) : \A c \in 1..Len(candidates) :
            candidates[c].sel.file = allEntries[i].file =>
                /\ SymbolWeightOf(allEntries[i]) > 0 =>
                     resolveSymbolRanges(allEntries[i].file,
                                         candidates[c].sel.symbols) # <<>>
                /\ RangeWeightOf(allEntries[i]) > 0 =>
                     candidates[c].sel.ranges # <<>>
                /\ allEntries[i].fallbackUsed =>
                     /\ SymbolWeightOf(allEntries[i]) = 0
                     /\ RangeWeightOf(allEntries[i]) = 0

\* A forced-finish call answered without a finish call inside the window.
ForcedEndsInError ==
    /\ pc = "finishCall"
    /\ pc' = "returned"
    /\ result'.summary = "Failed to get finish call"

\* C32: in the forced-finish phase the retries granted for a response that
\* lacks a finish call are counted on their own: the phase gives up only
\* after MAX_FINISH_NUDGES such retries were granted or after the wall-clock
\* window has passed, whatever the number of transient retries before.
C32_NudgesIndependentOfTransient ==
    [][ForcedEndsInError =>
          \/ hist.noFinishRetries = MAX_FINISH_NUDGES
          \/ finishElapsed' >= RETRY_WALL_TIME_MS]_vars

\* A step that ends an in-loop turn: the response was handled and the loop
\* goes on (a transient failure hands its turn back and is not one).
TurnEnds ==
    /\ pc \in {"call", "tools"}
    /\ pc' = "loop"
    /\ iterations' = iterations

Appended(message) == \E i \in 1..Len(pushed') : pushed'[i] = message

\* C33: the end of every turn numbered 6 to 13 appends the wrap-up nudge and
\* the end of turn 14 appends the "Last iteration" warning, so that the 15th
\* turn is never started without that warning in the history.
C33_GovernorMessages ==
    [][TurnEnds =>
          /\ (iterations >= 6 /\ iterations < MAX_ITERATIONS - 1
                => Appended("user:wrap-up"))
          /\ (iterations = MAX_ITERATIONS - 1
                => Appended("user:last-iteration"))]_vars

\* The delays of a streak whose calls take no time, by retry number.
ListedDelays == <<500, 1000, 2000, 4000, 8000, 14500>>

\* Wall time since the first failure of the streak when the n-th failure
\* arrives and neither the calls nor anything but the sleeps took time.
SleptBefore(n) == INITIAL_BACKOFF_MS * (Pow2(n - 1) - 1)

\* C39: while the agent sleeps for the n-th retry of a streak, the delay is
\* min(500 * 2^(n-1), 30000 - elapsed) and not negative, the sleep ends
\* inside the 30000 ms window that holds every sleep of the streak, there are
\* at most 6 retries, and with calls that take no time the delays are 500,
\* 1000, 2000, 4000, 8000 and the remaining 14500.
C39_BackoffSchedule ==
    pc = "sleep" =>
        /\ transientRetryCount \in 1..6
        /\ backoffMs = Min(INITIAL_BACKOFF_MS * Pow2(transientRetryCount - 1),
                           RETRY_WALL_TIME_MS - elapsed)
        /\ backoffMs >= 0
        /\ elapsed + backoffMs <= RETRY_WALL_TIME_MS
        /\ (elapsed = SleptBefore(transientRetryCount)
              => backoffMs = ListedDelays[transientRetryCount])

\* C39 witness: the sixth sleep of a streak, the remainder of the window.
C39_Witness ==
    /\ pc = "sleep"
    /\ transientRetryCount = 6
    /\ elapsed = 15500
    /\ backoffMs = 14500

\* The conditions of the two size penalties of scoreSelectionMeta
\* (index.ts:873, 876).
LargeSelectionPenalty(meta) == meta.selectedLines > 420

FullFileLargePenalty(meta) == meta.fullFile /\ meta.selectedLines > 220

\* C40: a resolved chunk flagged fullFile has at most 160 selected lines,
\* every chunk has at most 260, and so no chunk meets the condition of the
\* whole-file-and-large penalty or of the large-selection penalty.
C40_PenaltiesUnreachable ==
    rsPhase = "resolved" =>
        \A i \in 1..Len(rsEntries) :
            /\ rsEntries[i].selectedLines = SumLen(rsEntries[i].ranges)
            /\ rsEntries[i].fullFile =>
                 rsEntries[i].selectedLines <= MAX_LINES_PER_RANGE
            /\ rsEntries[i].selectedLines <= MAX_LINES_PER_FILE
            /\ ~FullFileLargePenalty(rsEntries[i])
            /\ ~LargeSelectionPenalty(rsEntries[i])
            /\ scoreSelectionMeta(rsEntries[i]) >=
                 scoreSelectionMeta([rsEntries[i] EXCEPT !.selectedLines = 241,
                                                         !.fullFile = FALSE])

\* C40 witness: the whole of a 200-line file was asked for and its chunk
\* holds the first 160 lines, not flagged fullFile; and, for a long file, a
\* chunk that fills the per-file cap.
C40_Witness ==
    /\ rsPhase = "resolved"
    /\ rsTotalLines = 200
    /\ rsRanges = <<Range(1, 200)>>
    /\ Len(rsEntries) = 1
    /\ rsEntries[1].selectedLines = MAX_LINES_PER_RANGE
    /\ ~rsEntries[1].fullFile

\* The tool calls of the assistant messages of the history, each with the
\* position of its message.
HistoryCalls ==
    { <<m, id>> \in (1..Len(tnMessages)) \X ((0..MaxTurns) \X (1..(MaxToolCalls + 1))) :
        /\ tnMessages[m].role = "assistant"
        /\ \E i \in 1..Len(tnMessages[m].calls) : tnMessages[m].calls[i] = id }

ResultsOf(id) ==
    { k \in 1..Len(tnMessages) :
        tnMessages[k] = [role |-> "toolResult", id |-> id] }

\* A state in which a completion call is issued, in the main loop or in the
\* forced-finish phase.
AtCompletionCall == tnPhase \in {"call", "forced"}

LogGrows ==
    /\ Len(tnLog') >= Len(tnLog)
    /\ SubSeq(tnLog', 1, Len(tnLog)) = tnLog

\* C38: at every completion call, each tool call of an assistant message of
\* the history, the prefill call included, has exactly one toolResult message
\* with its id, later in the history; and the tool-call log only grows at its
\* end.
C38_CallsAnsweredLogAppendOnly ==
    /\ [](AtCompletionCall =>
            \A c \in HistoryCalls :
                /\ Cardinality(ResultsOf(c[2])) = 1
                /\ \A k \in ResultsOf(c[2]) : k > c[1])
    /\ [][LogGrows]_vars

\* C38 witness: a completion call of the forced-finish phase after a turn of
\* two executed calls and an empty response that left its text in the
\* history.
C38_Witness ==
    /\ tnPhase = "forced"
    /\ Len(tnLog) = 3
    /\ Cardinality(HistoryCalls) = 3
    /\ \E m \in 1..Len(tnMessages) :
         tnMessages[m].role = "assistant" /\ tnMessages[m].calls = <<>>

Terminal(status) == status \in {"done", "error"}

\* The aggregate status as the claim words it, by cases on the agents.
ClaimedAggregate(states) ==
    CASE \E i \in 1..Len(states) : ~Terminal(states[i]) -> "running"
      [] OTHER -> IF \E i \in 1..Len(states) : states[i] = "error"
                  THEN "error" ELSE "done"

\* C37: when execute returns, every AgentState of the returned details has a
\* terminal status, on every path of the agents including the early returns;
\* and the aggregate status of the progress updates is running until every
\* agent is terminal, then error if any agent is in error, else done.
C37_AgentsTerminalAtReturn ==
    /\ aggregateStatus(agentStatesOf(results)) =
           ClaimedAggregate(agentStatesOf(results))
    /\ rqPhase = "returned" =>
           \A i \in 1..Len(detailsAgents(results, response)) :
               Terminal(detailsAgents(results, response)[i])

\* C34: the patterns the scanner searches with hold no stopword and no token
\* shorter than 3 characters, whatever the query text and the hints.
C34_NoStopwordNoShortToken ==
    ptPhase = "extracted" =>
        \A i \in 1..Len(ptPatterns) :
            /\ Len(ptPatterns[i]) >= 3
            /\ ptPatterns[i] \notin STOPWORDS

Queued(s) == InSeq(s, brWaiters)

\* Every wait connection is queued, closed by its client, or answered, and
\* answered once.
AnsweredOnce ==
    \A s \in 1..brSockets :
        /\ Len(brAnswers[s]) <= 1
        /\ Queued(s) => (brAnswers[s] = <<>> /\ s \notin brClosed)
        /\ s \in brClosed => brAnswers[s] = <<>>
        /\ (~Queued(s) /\ s \notin brClosed) => Len(brAnswers[s]) = 1
        /\ Cardinality({ k \in 1..Len(brWaiters) : brWaiters[k] = s }) <= 1

\* Right after a done/error that was not stale, or a cancel, nobody waits.
QueueEmptyAfterSignal ==
    (brLast # <<>>
     /\ \/ brLast[1].type = "cancel"
        \/ (brLast[1].type \in {"done", "error"} /\ ~brLast[1].stale))
    => brWaiters = <<>>

\* A wait is answered at once exactly when the latest started turn has ended
\* in done or error, with the event of that turn; otherwise it is queued.
WaitAnsweredOrQueued ==
    brSockets' = brSockets + 1 =>
        IF brStatus \in {"done", "error"}
        THEN /\ ~brAgentWorking
             /\ brAnswers'[brSockets'] =
                   <<[msg |-> AgentEvent(brStatus, brTurn), immediate |-> TRUE]>>
             /\ ~InSeq(brSockets', brWaiters')
        ELSE /\ brAnswers'[brSockets'] = <<>>
             /\ InSeq(brSockets', brWaiters')

\* A queued wait is answered by the done/error that ends the current turn or
\* by the cancelled notice of the current turn.
QueuedAnsweredBySignal ==
    \A s \in 1..brSockets :
        brAnswers'[s] # brAnswers[s] =>
            /\ Queued(s)
            /\ \/ /\ brAnswers'[s] = <<[msg |-> AgentEvent("cancelled", brTurn),
                                        immediate |-> FALSE]>>
                  /\ brCancels' = brCancels + 1
               \/ /\ \E type \in {"done", "error"} :
                        brAnswers'[s] = <<[msg |-> AgentEvent(type, brTurn),
                                           immediate |-> FALSE]>>
                  /\ brAgentWorking /\ ~brAgentWorking'

\* C35: a wait is answered immediately only when the latest started turn has
\* already ended in done or error, with that turn's event; otherwise it is
\* queued and answered once, by the done/error of the current turn or by a
\* cancelled notice; after a done/error that is not stale, or a cancel, the
\* waiter queue is empty.
C35_WaitBlocksUntilTurnEnds ==
    /\ [](AnsweredOnce /\ QueueEmptyAfterSignal)
    /\ [][WaitAnsweredOrQueued /\ QueuedAnsweredBySignal]_vars

\* C35 witness: one wait came after turn 1 was done and was answered at once
\* with its event; one wait was queued in turn 2 and got the cancelled notice.
C35_Witness ==
    /\ brSockets = 2
    /\ brAnswers[1] = <<[msg |-> AgentEvent("done", 1), immediate |-> TRUE]>>
    /\ brAnswers[2] = <<[msg |-> AgentEvent("cancelled", 2), immediate |-> FALSE]>>

\* The handling of a done/error: the agent's turn ends.
DoneHandled == brAgentWorking /\ ~brAgentWorking'

SignalIgnored == UNCHANGED <<brStatus, brResult, brAnswers, brWaiters, brTurn>>

SignalRecorded ==
    /\ brLast'[1].type \in {"done", "error"}
    /\ brStatus' = brLast'[1].type
    /\ brResult' = <<AgentEvent(brLast'[1].type, brTurn)>>
    /\ \A s \in 1..brSockets :
         Queued(s) => brAnswers'[s] = <<[msg |-> brResult'[1], immediate |-> FALSE]>>

\* C36: the done/error of a turn in which a cancel was handled is ignored:
\* it is not recorded as the result and reaches no waiter; the done/error of
\* a turn in which no cancel was handled is recorded and delivered, whatever
\* the order of the starts, cancels, signals and waits.
C36_StaleSignalsOnly ==
    [][DoneHandled =>
          IF brTurn \in brCancelledTurns THEN SignalIgnored ELSE SignalRecorded]_vars

\* C36 witness: turn 1 was cancelled and its signal ignored, a second cancel
\* came while the agent was idle, and the done of turn 2 is the result.
C36_Witness ==
    /\ brCancelledTurns = {1}
    /\ brCancels = 2
    /\ brTurn = 2
    /\ brResult = <<AgentEvent("done", 2)>>
    /\ brLast[1].seq = 6

====
